---------------------------- MODULE Spec2Model ----------------------------
(***************************************************************************)
(* A model of the teaching kernel: the pipe ring buffer of tg-easy-fs, the *)
(* chapter 8 file-descriptor table, process tree, signals, threads and     *)
(* blocking primitives, and the chapter 5 stride scheduler.                *)
(*                                                                         *)
(* Each subsystem has its own specification over the shared variables; the *)
(* variables of the other subsystems stay at their initial values.         *)
(***************************************************************************)
EXTENDS Integers, Sequences, FiniteSets, TLC

VARIABLES
    ring,        \* PipeRingBuffer: [arr, head, tail, status]
    fd_table,    \* pid -> sequence of slots ("None", "Stdin", "Stdout", "PipeRead", "PipeWrite", "FileR", "FileW", "FileRW")
    procs,       \* pids of the processes that exist
    written,     \* history: bytes accepted by successful pipe writes
    readOut,     \* history: bytes returned by successful pipe reads
    pipe_made,   \* whether make_pipe has built the pipe
    umem,        \* pid -> user memory (word address -> value), 0 where never written
    panicked,    \* the kernel has stopped in its panic handler
    ret,         \* return value of the last system call
    op,          \* the last system call: [name, fd, count, fault]; fault: a pointer of it did not translate
    caller,      \* the process that made the last system call (0 where the specification does not tell)
    nprocs,      \* ProcIds handed out so far
    parent,      \* pid -> pid of the parent (0: none)
    exit_code,   \* pid -> <<code>> for an exited process not yet reaped, else <<>>
    files,       \* names of the files open has made in the root directory
    inode_size,  \* file name -> bytes of data in the inode of the file
    actions,     \* pid -> signal number -> the action installed by sigaction (0: none)
    tasks,       \* ch5 ProcManager: pids of the processes in the table
    ready_queue, \* ch5 ProcManager: the ready queue, front first
    stride,      \* ch5 Process: pid -> stride
    priority,    \* ch5 Process: pid -> priority
    current,     \* ch5 PManager: the process running in user mode (0: none)
    ticks,       \* dispatches made so far
    win,         \* a window of dispatches under measurement: [open, balanced, n]
    ntids,       \* ch8: ThreadIds handed out so far
    tid2pid,     \* ch8 PThreadManager: tid -> pid of its process (0: no such thread)
    pthreads,    \* ch8 PThreadManager: pid -> the threads of the process not yet exited, oldest first
    context,     \* ch8 Thread: tid -> the saved registers [sepc, a0]
    state,       \* ch8: tid -> "none", "ready", "running", "blocked" or "exited"
    thread_queue, \* ch8 ThreadManager: the ready queue, front first
    running,     \* ch8: the thread find_next returned, in user mode or trapped (0: none)
    thread_exit, \* ch8: tid -> <<code>> once the thread has exited, else <<>>
    signal,      \* ch8 Process: pid -> [received, mask, saved], the signal state besides the actions
    mutex_list,  \* ch8 Process: pid -> sequence of slots, <<>> (None) or <<[owner, wait_queue]>>
    holding,     \* history: tid -> ids of the mutexes the thread has locked and not unlocked
    semaphore_list, \* ch8 Process: pid -> sequence of slots, <<>> (None) or <<[count, wait_queue]>>
    condvar_list, \* ch8 Process: pid -> sequence of slots, <<>> (None) or <<[wait_queue]>>
    sem_hist,    \* history: pid -> per semaphore slot [n, ups, downs]: the initial count, the ups made, the downs completed
    address_space, \* ch5 Process: pid -> page number -> the flags of the page ({}: not mapped)
    heap_bottom, \* ch5 Process: pid -> the lowest address of the heap
    program_brk, \* ch5 Process: pid -> the program break
    dirents,     \* easy-fs: the entries of the root directory, in order: [name, inode_number]
    inode_bitmap, \* easy-fs: the inode numbers in use (0 is the root directory)
    data_bitmap, \* easy-fs: the data blocks in use
    disk_inodes, \* easy-fs: inode number -> the data blocks of the inode, in order
    handles,     \* ch6 Process::fd_table past the standard streams: <<>> or <<[inode, offset, read, write]>>
    stat,        \* the Stat fstat stored last in user memory: [ino, nlink]
    waiting      \* history: tid -> <<mutex_id>> from its condvar_wait until the thread is dispatched again, else <<>>

efsVars == <<dirents, inode_bitmap, data_bitmap, disk_inodes, handles, stat>>

fsVars == <<files, inode_size, efsVars>>

ioVars == <<ring, fd_table, procs, written, readOut, pipe_made, umem>>
procVars == <<nprocs, parent, exit_code>>

memVars == <<address_space, heap_bottom, program_brk>>

strideVars == <<tasks, ready_queue, stride, priority, current, ticks, win, memVars>>

syncVars == <<semaphore_list, condvar_list, sem_hist, waiting>>

threadVars == <<ntids, tid2pid, pthreads, context, state, thread_queue, running,
                thread_exit, signal, mutex_list, holding, syncVars>>

vars == <<ring, fd_table, procs, written, readOut, pipe_made, umem, panicked, ret, op,
          caller, nprocs, parent, exit_code, files, inode_size, actions,
          tasks, ready_queue, stride, priority, current, ticks, win,
          ntids, tid2pid, pthreads, context, state, thread_queue, running,
          thread_exit, signal, mutex_list, holding,
          semaphore_list, condvar_list, sem_hist, waiting,
          address_space, heap_bottom, program_brk,
          dirents, inode_bitmap, data_bitmap, disk_inodes, handles, stat>>

None == "None"

Min(a, b) == IF a < b THEN a ELSE b

-----------------------------------------------------------------------------
(* Bounds of the model *)

\* processes that may exist (fork stops at this many)
MaxProcs == 2
\* bytes the writers may put through the pipe over a run
MaxStream == 35
\* largest small byte count passed to read and write
MaxCount == 1
\* slots an fd table may grow to
MaxFds == 5
\* largest priority passed to set_priority
MaxPrio == 3
\* dispatches in a run of the scheduler under arbitrary system calls
MaxTicks == 7
\* dispatches before a window of measurement starts
MaxStart == 5
\* dispatches by which a window may exceed its shortest length
MaxExtra == 3
\* threads that may exist (fork and thread_create stop at this many)
MaxThreads == 3
\* a thread makes system calls while its sepc is below this
MaxPc == 12
\* bits of the stride counter of the model (64 in the build), where the
\* counter is taken to its width
StrideBits == 22
\* dispatches in a run that takes the stride counter to its width
MaxWrapTicks == 20
\* passes of a process of priority 2 in a run of the scheduler without end
MaxPasses == 4
\* mutex slots a process may have
MaxMutexes == 2
\* semaphore slots a process may have
MaxSems == 1
\* condition variable slots a process may have
MaxCondvars == 1
\* bits of a usize of the model (64 in the build): the arithmetic of mmap and
\* munmap wraps at 2 ^ UsizeBits
UsizeBits == 16
\* pages the heap may grow to
MaxHeap == 2
\* system calls a run on the memory of a process makes
MaxCalls == 4
\* bytes of a program of the file system image
AppSize == 2
\* largest initial count of a semaphore
MaxRes == 1
\* bytes written over a run that reads, writes and closes any fd
MaxIo == 2
\* inodes of the disk besides the root directory
MaxInodes == 2
\* data blocks of the disk besides those of the programs
MaxBlocks == 1
\* files a process of chapter 6 may open over a run
MaxHandles == 1

\* the ids a process and a thread may have
Pids == 1..(MaxProcs + 1)
Tids == 1..(MaxThreads + 1)

-----------------------------------------------------------------------------
(* tg-easy-fs/src/pipe.rs *)

RING_BUFFER_SIZE == 32

\* PipeRingBuffer::new
NewRing == [arr |-> [i \in 0..(RING_BUFFER_SIZE - 1) |-> 0],
            head |-> 0, tail |-> 0, status |-> "Empty"]

\* a write_byte that never sets the status Full
write_byte_NoFull(r, byte) ==
    [arr |-> [r.arr EXCEPT ![r.tail] = byte],
     head |-> r.head,
     tail |-> (r.tail + 1) % RING_BUFFER_SIZE,
     status |-> "Normal"]

\* PipeRingBuffer::write_byte
write_byte(r, byte) ==
    LET t == (r.tail + 1) % RING_BUFFER_SIZE
    IN  [arr |-> [r.arr EXCEPT ![r.tail] = byte],
         head |-> r.head,
         tail |-> t,
         status |-> IF t = r.head THEN "Full" ELSE "Normal"]

\* read_byte that hands out the byte one slot past the head
read_byte_NextSlot(r) ==
    LET h == (r.head + 1) % RING_BUFFER_SIZE
    IN  [ring |-> [arr |-> r.arr,
                   head |-> h,
                   tail |-> r.tail,
                   status |-> IF h = r.tail THEN "Empty" ELSE "Normal"],
         byte |-> r.arr[h]]

\* PipeRingBuffer::read_byte: the ring afterwards, and the byte
read_byte(r) ==
    LET h == (r.head + 1) % RING_BUFFER_SIZE
    IN  [ring |-> [arr |-> r.arr,
                   head |-> h,
                   tail |-> r.tail,
                   status |-> IF h = r.tail THEN "Empty" ELSE "Normal"],
         byte |-> r.arr[r.head]]

\* PipeRingBuffer::available_read
available_read(r) ==
    IF r.status = "Empty" THEN 0
    ELSE IF r.tail > r.head THEN r.tail - r.head
    ELSE r.tail + RING_BUFFER_SIZE - r.head

\* PipeRingBuffer::available_write
available_write(r) ==
    IF r.status = "Full" THEN 0
    ELSE RING_BUFFER_SIZE - available_read(r)

\* the strong count of the Arc<PipeWriter>: one per fd-table slot holding it
WriteHandles ==
    Cardinality(UNION {{<<p, i>> : i \in {j \in DOMAIN fd_table[p] : fd_table[p][j] = "PipeWrite"}} :
                          p \in procs})

\* PipeRingBuffer::all_write_ends_closed: the Weak no longer upgrades
all_write_ends_closed == WriteHandles = 0

\* the loop of PipeReader::read: bytes are taken, oldest first, until
\* already_read (the length of acc) is n
RECURSIVE ReadLoop(_, _, _)
ReadLoop(r, n, acc) ==
    IF Len(acc) = n THEN [ring |-> r, bytes |-> acc]
    ELSE LET s == read_byte(r)
         IN  ReadLoop(s.ring, n, Append(acc, s.byte))

\* PipeReader::read that reports EOF whenever the ring is empty, writers or not
PipeReaderRead_EofWhenEmpty(r, count) ==
    LET loop_read == available_read(r)
    IN  IF loop_read = 0
        THEN [ret |-> 0, ring |-> r, bytes |-> <<>>]
        ELSE LET got == ReadLoop(r, Min(count, loop_read), <<>>)
             IN  [ret |-> Len(got.bytes), ring |-> got.ring, bytes |-> got.bytes]

\* PipeReader::read on a user buffer of `count` bytes:
\* the return value, the ring afterwards and the bytes stored in the buffer
PipeReaderRead(r, count) ==
    LET loop_read == available_read(r)
    IN  IF loop_read = 0
        THEN [ret |-> IF all_write_ends_closed THEN 0 ELSE -2,
              ring |-> r, bytes |-> <<>>]
        ELSE LET got == ReadLoop(r, Min(count, loop_read), <<>>)
             IN  [ret |-> Len(got.bytes), ring |-> got.ring, bytes |-> got.bytes]

\* the loop of PipeWriter::write: the first n bytes of buf are stored; the
\* ring is computed at every turn (w = w), not as n nested write_byte
RECURSIVE WriteLoop(_, _, _, _)
WriteLoop(r, buf, i, n) ==
    IF i > n THEN r
    ELSE LET w == write_byte(r, buf[i])
         IN  IF w = w THEN WriteLoop(w, buf, i + 1, n) ELSE r

\* PipeWriter::write of the user buffer buf: the return value and the ring afterwards
PipeWriterWrite(r, buf) ==
    LET loop_write == available_write(r)
    IN  IF loop_write = 0
        THEN [ret |-> -2, ring |-> r, taken |-> 0]
        ELSE LET n == Min(Len(buf), loop_write)
             IN  [ret |-> n, ring |-> WriteLoop(r, buf, 1, n), taken |-> n]

-----------------------------------------------------------------------------
(* ch8/src/main.rs, impl IO / Process / Signal for SyscallContext; ch8/src/process.rs *)

\* the fds of the standard streams: their places in the fd table of from_elf
\* tg_signal::MAX_SIG, the largest signal number; the model has few signals
MAX_SIG == 2

STDIN == 0
STDOUT == 1
STDDEBUG == 2

\* word addresses a user pointer may hold; the mapped ones translate
Addrs == 0..3
Mapped == {1, 2}

\* AddressSpace::translate succeeds on the word at addr
Translates(addr) == addr \in Mapped

\* Process::from_elf: the fd table of a new process
InitFdTable == <<"Stdin", "Stdout", "Stdout">>

\* Fd::File(FileHandle) with the permissions FileHandle::new was given
FileSlots == {"FileR", "FileW", "FileRW"}

\* Fd::readable / Fd::writable
readable(slot) == slot \in {"Stdin", "PipeRead", "FileR", "FileRW"}
writable(slot) == slot \in {"Stdout", "PipeWrite", "FileW", "FileRW"}

\* the contents of regular files are not modelled: read and write are taken
\* on the standard streams, on pipe ends, on closed slots and past the table
NotFile(p, fd) == fd < Len(fd_table[p]) => fd_table[p][fd + 1] \notin FileSlots

\* the stream the writers send: byte k of it is k (as a u8), so that loss,
\* duplication and reordering all show
StreamBytes(from, count) == [i \in 1..count |-> (from + i - 1) % 256]

\* the call is made by process p; neither scheduler is involved
By(p) == caller' = p /\ UNCHANGED <<strideVars, threadVars>>

SetOp(name, fd, count, fault) ==
    op' = [name |-> name, fd |-> fd, count |-> count, fault |-> fault]

\* get_current_proc() is p: p exists and has not exited
Alive(p) == p \in procs /\ exit_code[p] = <<>>

\* OpenFlags
RDONLY == 0
WRONLY == 1
RDWR == 2
CREATE == 512
TRUNC == 1024

\* OpenFlags::contains(flag), for a flag of one bit
contains(flags, flag) == (flags \div flag) % 2 = 1

\* OpenFlags::from_bits(flags) is Some: no bit but those of the flags is set
from_bits(flags) ==
    flags >= 0 /\ flags - (flags % 4) \in {0, CREATE, TRUNC, CREATE + TRUNC}

\* OpenFlags::read_write: (readable, writable); is_empty() is "no bit set"
read_write(flags) ==
    IF flags = 0 THEN <<TRUE, FALSE>>
    ELSE IF contains(flags, WRONLY) THEN <<FALSE, TRUE>>
    ELSE <<TRUE, TRUE>>

\* FileHandle::new(readable, writable, inode) as a slot of the fd table
FileHandle(rw) ==
    IF rw[1] /\ rw[2] THEN "FileRW" ELSE IF rw[1] THEN "FileR" ELSE "FileW"

\* the programs (ELF files) of the file system image
Apps == {"app"}

\* the names a file may have
FsNames == Apps \cup {"f"}

\* FileSystem::find(path): the root directory has the file
find(dir, name) == name \in dir \cup Apps

\* FileSystem::open(path, flags) on the root directory dir and the sizes
\* size: whether a handle is returned, and the directory and the sizes
\* afterwards; Inode::clear leaves no data, Inode::create makes an empty file
FSOpen(dir, size, name, flags) ==
    IF contains(flags, CREATE)
    THEN IF find(dir, name)
         THEN [some |-> TRUE, files |-> dir, inode_size |-> [size EXCEPT ![name] = 0]]
         ELSE [some |-> TRUE, files |-> dir \cup {name},
               inode_size |-> [size EXCEPT ![name] = 0]]
    ELSE IF find(dir, name)
         THEN [some |-> TRUE, files |-> dir,
               inode_size |-> IF contains(flags, TRUNC)
                              THEN [size EXCEPT ![name] = 0]
                              ELSE size]
         ELSE [some |-> FALSE, files |-> dir, inode_size |-> size]

\* IO::open of the path stored at `path`, which names the file `name`, with
\* the flags `flags`
SysOpen(p, path, name, flags) ==
    /\ ~panicked /\ Alive(p)
    /\ IF ~Translates(path)
       THEN /\ ret' = -1 /\ SetOp("open", flags, 0, TRUE)
            /\ UNCHANGED <<fd_table, fsVars, panicked>>
       ELSE IF ~from_bits(flags)
       THEN panicked' = TRUE /\ UNCHANGED <<fd_table, fsVars, ret, op>>
       ELSE LET o == FSOpen(files, inode_size, name, flags)
            IN  /\ files' = o.files
                /\ inode_size' = o.inode_size
                /\ UNCHANGED efsVars
                /\ IF o.some
                   THEN /\ ret' = Len(fd_table[p])
                        /\ fd_table' = [fd_table EXCEPT ![p] =
                                             Append(@, FileHandle(read_write(flags)))]
                   ELSE ret' = -1 /\ UNCHANGED fd_table
                /\ SetOp("open", flags, 0, FALSE)
                /\ UNCHANGED panicked
    /\ UNCHANGED <<ring, procs, written, readOut, pipe_made, umem, procVars, actions>>

\* IO::close
SysClose(p, fd) ==
    /\ ~panicked /\ Alive(p)
    /\ IF fd >= Len(fd_table[p]) \/ fd_table[p][fd + 1] = None
       THEN ret' = -1 /\ UNCHANGED fd_table
       ELSE ret' = 0 /\ fd_table' = [fd_table EXCEPT ![p][fd + 1] = None]
    /\ SetOp("close", fd, 0, FALSE)
    /\ UNCHANGED <<ring, procs, written, readOut, pipe_made, umem, panicked, procVars, fsVars, actions>>

\* IO::pipe
SysPipe(p, pipe) ==
    /\ ~panicked /\ Alive(p) /\ ~pipe_made
    /\ LET read_fd == Len(fd_table[p])
           write_fd == read_fd + 1
       IN  IF ~Translates(pipe)
           THEN /\ ret' = -1
                /\ UNCHANGED <<fd_table, umem, pipe_made>>
           ELSE IF ~Translates(pipe + 1)
           THEN /\ ret' = -1
                /\ umem' = [umem EXCEPT ![p][pipe] = read_fd]
                /\ UNCHANGED <<fd_table, pipe_made>>
           ELSE /\ ret' = 0
                /\ umem' = [umem EXCEPT ![p][pipe] = read_fd, ![p][pipe + 1] = write_fd]
                /\ fd_table' = [fd_table EXCEPT ![p] = @ \o <<"PipeRead", "PipeWrite">>]
                /\ pipe_made' = TRUE
    /\ SetOp("pipe", 0, 0, ~Translates(pipe) \/ ~Translates(pipe + 1))
    /\ UNCHANGED <<ring, procs, written, readOut, panicked, procVars, fsVars, actions>>

\* IO::read into the user buffer at buf; the bytes a pipe delivers are
\* recorded in readOut
SysRead(p, fd, buf, count) ==
    /\ ~panicked /\ Alive(p) /\ NotFile(p, fd)
    /\ SetOp("read", fd, count, ~Translates(buf))
    /\ UNCHANGED <<fd_table, procs, written, pipe_made, umem, procVars, fsVars, actions>>
    /\ IF ~Translates(buf)
       THEN ret' = -1 /\ UNCHANGED <<ring, readOut, panicked>>
       ELSE IF fd = STDIN
       THEN ret' = count /\ UNCHANGED <<ring, readOut, panicked>>
       ELSE IF fd >= Len(fd_table[p])
       THEN panicked' = TRUE /\ UNCHANGED <<ring, readOut, ret>>
       ELSE IF fd_table[p][fd + 1] = None \/ ~readable(fd_table[p][fd + 1])
       THEN ret' = -1 /\ UNCHANGED <<ring, readOut, panicked>>
       ELSE LET got == PipeReaderRead(ring, count)
            IN  /\ ret' = got.ret
                /\ ring' = got.ring
                /\ readOut' = readOut \o got.bytes
                /\ UNCHANGED panicked

\* IO::write of the user buffer at buf, which holds the next bytes of the stream
SysWrite(p, fd, buf, count) ==
    /\ ~panicked /\ Alive(p) /\ NotFile(p, fd)
    /\ SetOp("write", fd, count, ~Translates(buf))
    /\ UNCHANGED <<fd_table, procs, readOut, pipe_made, umem, procVars, fsVars, actions>>
    /\ IF ~Translates(buf)
       THEN ret' = -1 /\ UNCHANGED <<ring, written, panicked>>
       ELSE IF fd = STDOUT \/ fd = STDDEBUG
       THEN ret' = count /\ UNCHANGED <<ring, written, panicked>>
       ELSE IF fd >= Len(fd_table[p])
       THEN panicked' = TRUE /\ UNCHANGED <<ring, written, ret>>
       ELSE IF fd_table[p][fd + 1] = None \/ ~writable(fd_table[p][fd + 1])
       THEN ret' = -1 /\ UNCHANGED <<ring, written, panicked>>
       ELSE LET buffer == StreamBytes(Len(written), count)
                put == PipeWriterWrite(ring, buffer)
            IN  /\ ret' = put.ret
                /\ ring' = put.ring
                /\ written' = written \o SubSeq(buffer, 1, put.taken)
                /\ UNCHANGED panicked

\* Process::fork, the fd table: every slot of the parent is cloned
ForkFdTable(tbl) == [i \in 1..Len(tbl) |-> tbl[i]]

\* ProcId::new: pids are handed out in increasing order
NewPid == nprocs + 1

\* Process::fork seen from the process table: the child shares every open
\* handle and starts with the parent's signal actions
SysForkProc(p) ==
    /\ ~panicked /\ Alive(p)
    /\ nprocs < MaxProcs
    /\ nprocs' = NewPid
    /\ procs' = procs \cup {NewPid}
    /\ parent' = [parent EXCEPT ![NewPid] = p]
    /\ fd_table' = [fd_table EXCEPT ![NewPid] = ForkFdTable(fd_table[p])]
    /\ actions' = [actions EXCEPT ![NewPid] = actions[p]]
    /\ ret' = NewPid
    /\ SetOp("fork", 0, 0, FALSE)
    /\ UNCHANGED <<ring, written, readOut, pipe_made, umem, panicked, exit_code, fsVars>>

\* the process the children of an exited process are handed to
InitProc == 1

\* the parent links after process p has exited
Reparent(par, p) == [c \in Pids |-> IF par[c] = p THEN InitProc ELSE par[c]]

\* the only thread of p exits with `code`: the process stays, exited, until
\* its parent reaps it, and its children are handed over
ExitProc(p, code) ==
    /\ ~panicked /\ Alive(p)
    /\ exit_code' = [exit_code EXCEPT ![p] = <<code>>]
    /\ parent' = Reparent(parent, p)
    /\ ret' = code
    /\ SetOp("exit", 0, 0, FALSE)
    /\ UNCHANGED <<ioVars, panicked, nprocs, fsVars, actions>>

\* processor.wait(pid): the exited children of p that pid selects (-1: any)
ExitedChildren(p, pid) ==
    {c \in procs : parent[c] = p /\ exit_code[c] # <<>> /\ (pid = -1 \/ pid = c)}

\* a wait that reaps the child but does not store its exit code
SysWait_NoStore(p, pid, exit_code_ptr) ==
    /\ ~panicked /\ Alive(p)
    /\ IF ExitedChildren(p, pid) = {}
       THEN /\ ret' = -1
            /\ SetOp("wait", pid, exit_code_ptr, FALSE)
            /\ UNCHANGED <<procs, fd_table, umem, parent, exit_code>>
       ELSE LET dead_pid == CHOOSE c \in ExitedChildren(p, pid) :
                               \A d \in ExitedChildren(p, pid) : c <= d
            IN  /\ procs' = procs \ {dead_pid}
                /\ fd_table' = [fd_table EXCEPT ![dead_pid] = <<>>]
                /\ parent' = [parent EXCEPT ![dead_pid] = 0]
                /\ exit_code' = [exit_code EXCEPT ![dead_pid] = <<>>]
                /\ umem' = umem
                /\ ret' = dead_pid
                /\ SetOp("wait", pid, exit_code_ptr, ~Translates(exit_code_ptr))
    /\ UNCHANGED <<ring, written, readOut, pipe_made, panicked, nprocs, fsVars, actions>>

\* Process::wait: processor.wait removes the record of the child it returns,
\* and only then is exit_code_ptr translated
SysWait(p, pid, exit_code_ptr) ==
    /\ ~panicked /\ Alive(p)
    /\ IF ExitedChildren(p, pid) = {}
       THEN /\ ret' = -1
            /\ SetOp("wait", pid, exit_code_ptr, FALSE)
            /\ UNCHANGED <<procs, fd_table, umem, parent, exit_code>>
       ELSE LET dead_pid == CHOOSE c \in ExitedChildren(p, pid) :
                               \A d \in ExitedChildren(p, pid) : c <= d
            IN  /\ procs' = procs \ {dead_pid}
                /\ fd_table' = [fd_table EXCEPT ![dead_pid] = <<>>]
                /\ parent' = [parent EXCEPT ![dead_pid] = 0]
                /\ exit_code' = [exit_code EXCEPT ![dead_pid] = <<>>]
                /\ umem' = IF Translates(exit_code_ptr)
                           THEN [umem EXCEPT ![p][exit_code_ptr] = exit_code[dead_pid][1]]
                           ELSE umem
                /\ ret' = dead_pid
                /\ SetOp("wait", pid, exit_code_ptr, ~Translates(exit_code_ptr))
    /\ UNCHANGED <<ring, written, readOut, pipe_made, panicked, nprocs, fsVars, actions>>

\* Signal::sigaction on the memory mem and the actions acts of the current
\* process: the old action is stored before the new one is read
sigaction(mem, acts, signum, action, old_action) ==
    LET bad_old == old_action # 0 /\ ~Translates(old_action)
        bad_new == action # 0 /\ ~Translates(action)
        stored == IF old_action # 0 /\ Translates(old_action)
                  THEN [mem EXCEPT ![old_action] = acts[signum]]
                  ELSE mem
    IN  IF signum > MAX_SIG \/ signum = 0
        THEN [ret |-> -1, fault |-> FALSE, umem |-> mem, actions |-> acts]
        ELSE IF bad_old
        THEN [ret |-> -1, fault |-> TRUE, umem |-> mem, actions |-> acts]
        ELSE IF bad_new
        THEN [ret |-> -1, fault |-> TRUE, umem |-> stored, actions |-> acts]
        ELSE [ret |-> 0, fault |-> FALSE, umem |-> stored,
              actions |-> IF action # 0
                          THEN [acts EXCEPT ![signum] = stored[action]]
                          ELSE acts]

\* Signal::sigaction called by process p
SysSigaction(p, signum, action, old_action) ==
    /\ ~panicked /\ Alive(p)
    /\ LET r == sigaction(umem[p], actions[p], signum, action, old_action)
       IN  /\ ret' = r.ret
           /\ SetOp("sigaction", 0, 0, r.fault)
           /\ umem' = [umem EXCEPT ![p] = r.umem]
           /\ actions' = [actions EXCEPT ![p] = r.actions]
    /\ UNCHANGED <<ring, fd_table, procs, written, readOut, pipe_made, panicked,
                   procVars, fsVars>>

-----------------------------------------------------------------------------
(* ch8/src/main.rs, rust_main and the system calls on threads, signals and  *)
(* mutexes; ch8/src/process.rs, ch8/src/processor.rs                        *)

\* LocalContext::user(entry): the registers of a thread about to start
UserContext(entry) == [sepc |-> entry, a0 |-> 0]

\* LocalContext::move_next: sepc steps over the ecall
move_next(ctx) == [ctx EXCEPT !.sepc = @ + 4]

\* SignalImpl::new: nothing received, nothing masked, no handler running
NewSignal == [received |-> {}, mask |-> 0, saved |-> <<>>]

\* bit s of the signal mask is set
Masked(mask, s) == (mask \div (2 ^ s)) % 2 = 1

\* the exit code ProcessKilled carries for signal s
KilledCode(s) == 0 - s

\* handle_signals, the walk over the received signals that are not masked,
\* from signal s on: one without a handler kills, one with a handler saves
\* the context and enters the handler with the signal number in a0
RECURSIVE SignalWalk(_, _, _, _)
SignalWalk(s, sg, acts, ctx) ==
    IF s > MAX_SIG
    THEN [killed |-> FALSE, exit_code |-> 0, signal |-> sg, context |-> ctx]
    ELSE IF s \notin sg.received \/ Masked(sg.mask, s)
    THEN SignalWalk(s + 1, sg, acts, ctx)
    ELSE IF acts[s] = 0
    THEN [killed |-> TRUE, exit_code |-> KilledCode(s),
          signal |-> [sg EXCEPT !.received = @ \ {s}], context |-> ctx]
    ELSE SignalWalk(s + 1, [sg EXCEPT !.received = @ \ {s}, !.saved = <<ctx>>],
                    acts, [ctx EXCEPT !.sepc = acts[s], !.a0 = s])

\* Signal::handle_signals(ctx)
handle_signals(sg, acts, ctx) == SignalWalk(1, sg, acts, ctx)

\* MutexBlocking::new
NewMutex == [owner |-> 0, wait_queue |-> <<>>]

\* MutexBlocking::lock(tid): whether the lock is taken, and the mutex afterwards
MutexLock(m, tid) ==
    IF m.owner = 0
    THEN [locked |-> TRUE, mutex |-> [m EXCEPT !.owner = tid]]
    ELSE [locked |-> FALSE, mutex |-> [m EXCEPT !.wait_queue = Append(@, tid)]]

\* MutexBlocking::unlock(), which is not told who calls it: the thread woken
\* (<<>>: none) and the mutex afterwards
MutexUnlock(m) ==
    IF m.wait_queue # <<>>
    THEN [woken |-> <<Head(m.wait_queue)>>,
          mutex |-> [owner |-> Head(m.wait_queue), wait_queue |-> Tail(m.wait_queue)]]
    ELSE [woken |-> <<>>, mutex |-> [m EXCEPT !.owner = 0]]

\* the kernel state a handler works on, the ecall of thread t stepped over:
\* handlers hand the dispatcher a changed copy of it
Trapped(t) ==
    [signal |-> signal, actions |-> actions,
     context |-> [context EXCEPT ![t] = move_next(@)],
     thread_queue |-> thread_queue, state |-> state,
     pthreads |-> pthreads, parent |-> parent]

\* find_next has returned a thread and it makes a system call
InSyscall == ~panicked /\ running # 0 /\ context[running].sepc < MaxPc

\* make_current_exited(code): the thread leaves its process; the process
\* exits with the code of its last thread and its children are handed over
MakeExited(t, code, k, ctx) ==
    LET p == tid2pid[t]
        rest == SelectSeq(k.pthreads[p], LAMBDA u : u # t)
    IN  /\ state' = [k.state EXCEPT ![t] = "exited"]
        /\ thread_exit' = [thread_exit EXCEPT ![t] = <<code>>]
        /\ pthreads' = [k.pthreads EXCEPT ![p] = rest]
        /\ exit_code' = IF rest = <<>> THEN [exit_code EXCEPT ![p] = <<code>>] ELSE exit_code
        /\ parent' = IF rest = <<>> THEN Reparent(k.parent, p) ELSE k.parent
        /\ thread_queue' = k.thread_queue
        /\ context' = ctx

\* a dispatcher that suspends the caller of a semaphore_down that returned -1
Blocking_NoSemaphore == {"mutex_lock", "condvar_wait"}

\* the system calls whose return of -1 blocks the caller
Blocking == {"semaphore_down", "mutex_lock", "condvar_wait"}

\* a dispatcher that resumes the thread without looking at its signals
AfterSyscall_NoSignals(t, id, syscall_ret, k) ==
    /\ signal' = k.signal
    /\ actions' = k.actions
    /\ running' = 0
    /\ IF id = "exit"
       THEN MakeExited(t, syscall_ret, k, k.context)
       ELSE /\ context' = [k.context EXCEPT ![t].a0 = syscall_ret]
            /\ IF id \in Blocking /\ syscall_ret = -1
               THEN /\ state' = [k.state EXCEPT ![t] = "blocked"]
                    /\ thread_queue' = k.thread_queue
               ELSE /\ state' = [k.state EXCEPT ![t] = "ready"]
                    /\ thread_queue' = Append(k.thread_queue, t)
            /\ pthreads' = k.pthreads
            /\ parent' = k.parent
            /\ UNCHANGED <<thread_exit, exit_code>>

\* a dispatcher that suspends the caller whatever the system call returned
AfterSyscall_NoBlock(t, id, syscall_ret, k) ==
    LET p == tid2pid[t]
        hs == handle_signals(k.signal[p], k.actions[p], k.context[t])
        ctx == [k.context EXCEPT ![t] = hs.context]
    IN  /\ signal' = [k.signal EXCEPT ![p] = hs.signal]
        /\ actions' = k.actions
        /\ running' = 0
        /\ IF hs.killed
           THEN MakeExited(t, hs.exit_code, k, ctx)
           ELSE IF id = "exit"
           THEN MakeExited(t, syscall_ret, k, ctx)
           ELSE /\ context' = [ctx EXCEPT ![t].a0 = syscall_ret]
                /\ state' = [k.state EXCEPT ![t] = "ready"]
                /\ thread_queue' = Append(k.thread_queue, t)
                /\ pthreads' = k.pthreads
                /\ parent' = k.parent
                /\ UNCHANGED <<thread_exit, exit_code>>

\* rust_main, the arm of UserEnvCall once the handler of system call id has
\* returned syscall_ret and left the kernel state k: the signals of the
\* current process are handled, then the thread exits, blocks or is suspended
AfterSyscall(t, id, syscall_ret, k) ==
    LET p == tid2pid[t]
        hs == handle_signals(k.signal[p], k.actions[p], k.context[t])
        ctx == [k.context EXCEPT ![t] = hs.context]
    IN  /\ signal' = [k.signal EXCEPT ![p] = hs.signal]
        /\ actions' = k.actions
        /\ running' = 0
        /\ IF hs.killed
           THEN MakeExited(t, hs.exit_code, k, ctx)
           ELSE IF id = "exit"
           THEN MakeExited(t, syscall_ret, k, ctx)
           ELSE /\ context' = [ctx EXCEPT ![t].a0 = syscall_ret]
                /\ IF id \in Blocking /\ syscall_ret = -1
                   THEN /\ state' = [k.state EXCEPT ![t] = "blocked"]
                        /\ thread_queue' = k.thread_queue
                   ELSE /\ state' = [k.state EXCEPT ![t] = "ready"]
                        /\ thread_queue' = Append(k.thread_queue, t)
                /\ pthreads' = k.pthreads
                /\ parent' = k.parent
                /\ UNCHANGED <<thread_exit, exit_code>>

\* the system call id(a, b) of the running thread: what it returns and the
\* dispatch that follows
Syscall(id, a, b, fault, syscall_ret, k) ==
    /\ ret' = syscall_ret
    /\ SetOp(id, a, b, fault)
    /\ caller' = tid2pid[running]
    /\ AfterSyscall(running, id, syscall_ret, k)

\* what no system call of this section touches
KernelFrame == UNCHANGED <<ring, written, readOut, pipe_made, fsVars, panicked, strideVars>>

\* what no system call of this section but those of the semaphores and the
\* condition variables touches
ThreadFrame == KernelFrame /\ UNCHANGED syncVars

\* rust_main: find_next takes the thread at the front of the ready queue
ThreadFindNext ==
    /\ ~panicked /\ running = 0 /\ thread_queue # <<>>
    /\ running' = Head(thread_queue)
    /\ thread_queue' = Tail(thread_queue)
    /\ state' = [state EXCEPT ![Head(thread_queue)] = "running"]
    /\ waiting' = [waiting EXCEPT ![Head(thread_queue)] = <<>>]
    /\ UNCHANGED <<ioVars, procVars, fsVars, actions, panicked, ret, op, caller, strideVars,
                   ntids, tid2pid, pthreads, context, thread_exit, signal, mutex_list,
                   holding, semaphore_list, condvar_list, sem_hist>>

\* rust_main: find_next finds the ready queue empty, the loop ends ("no
\* task") and the kernel shuts down with failure = false
ThreadShutdown ==
    /\ ~panicked /\ running = 0 /\ thread_queue = <<>> /\ op.name # "shutdown"
    /\ SetOp("shutdown", 0, 0, FALSE)
    /\ UNCHANGED <<ioVars, procVars, fsVars, actions, panicked, ret, caller, strideVars,
                   threadVars>>

\* Scheduling::sched_yield
ThreadYield ==
    /\ InSyscall
    /\ Syscall("yield", 0, 0, FALSE, 0, Trapped(running))
    /\ UNCHANGED <<fd_table, procs, umem, nprocs, ntids, tid2pid, mutex_list, holding>>
    /\ ThreadFrame

\* Process::exit
ThreadExit(code) ==
    /\ InSyscall
    /\ Syscall("exit", 0, 0, FALSE, code, Trapped(running))
    /\ UNCHANGED <<fd_table, procs, umem, nprocs, ntids, tid2pid, mutex_list, holding>>
    /\ ThreadFrame

\* a trap that is no system call: make_current_exited(-3), signals not handled
ThreadFault ==
    /\ ~panicked /\ running # 0
    /\ MakeExited(running, -3, Trapped(running), context)
    /\ running' = 0
    /\ SetOp("fault", 0, 0, FALSE) /\ caller' = tid2pid[running]
    /\ UNCHANGED <<fd_table, procs, umem, nprocs, ntids, tid2pid, mutex_list, holding,
                   ret, signal, actions>>
    /\ ThreadFrame

\* rust_main, the arm of a trap whose cause is the supervisor timer: chapters 5
\* to 8 have no arm of their own for it, so that it is taken by the last arm,
\* make_current_exited(-3)
ThreadTimer ==
    /\ ~panicked /\ running # 0
    /\ MakeExited(running, -3, Trapped(running), context)
    /\ running' = 0
    /\ SetOp("timer", 0, 0, FALSE) /\ caller' = tid2pid[running]
    /\ UNCHANGED <<fd_table, procs, umem, nprocs, ntids, tid2pid, mutex_list, holding,
                   ret, signal, actions>>
    /\ ThreadFrame

\* a dispatcher that ends the caller of an unsupported system call without
\* looking at its signals
AfterUnsupported_NoSignals(t, k) ==
    /\ signal' = k.signal
    /\ actions' = k.actions
    /\ running' = 0
    /\ MakeExited(t, -2, k, k.context)

\* rust_main, the arm of UserEnvCall when the id of the system call is not
\* supported: the signals of the current process are handled, then the thread
\* exits, with the code of ProcessKilled or else with -2
AfterUnsupported(t, k) ==
    LET p == tid2pid[t]
        hs == handle_signals(k.signal[p], k.actions[p], k.context[t])
        ctx == [k.context EXCEPT ![t] = hs.context]
    IN  /\ signal' = [k.signal EXCEPT ![p] = hs.signal]
        /\ actions' = k.actions
        /\ running' = 0
        /\ IF hs.killed
           THEN MakeExited(t, hs.exit_code, k, ctx)
           ELSE MakeExited(t, -2, k, ctx)

\* a system call whose id the kernel does not support
ThreadUnsupported ==
    /\ InSyscall
    /\ SetOp("unsupported", 0, 0, FALSE) /\ caller' = tid2pid[running]
    /\ AfterUnsupported(running, Trapped(running))
    /\ UNCHANGED <<fd_table, procs, umem, nprocs, ntids, tid2pid, mutex_list, holding, ret>>
    /\ ThreadFrame

\* ThreadId::new: tids are handed out in increasing order
NewTid == ntids + 1

\* Process::fork of chapter 8: the child process gets the fd table, the
\* signal actions and the mask of the parent, and one thread, whose context is
\* a copy of the context of pthreads[0] with a0 = 0
ThreadFork ==
    /\ InSyscall /\ nprocs < MaxProcs /\ ntids < MaxThreads
    /\ LET t == running
           p == tid2pid[t]
           k == Trapped(t)
           child == [k.context[pthreads[p][1]] EXCEPT !.a0 = 0]
       IN  /\ nprocs' = NewPid
           /\ ntids' = NewTid
           /\ procs' = procs \cup {NewPid}
           /\ fd_table' = [fd_table EXCEPT ![NewPid] = ForkFdTable(fd_table[p])]
           /\ tid2pid' = [tid2pid EXCEPT ![NewTid] = NewPid]
           /\ Syscall("fork", 0, 0, FALSE, NewPid,
                      [k EXCEPT !.signal[NewPid] = [NewSignal EXCEPT !.mask = signal[p].mask],
                                !.actions[NewPid] = actions[p],
                                !.context[NewTid] = child,
                                !.parent[NewPid] = p,
                                !.pthreads[NewPid] = <<NewTid>>,
                                !.state[NewTid] = "ready",
                                !.thread_queue = Append(@, NewTid)])
    /\ UNCHANGED <<umem, mutex_list, holding>>
    /\ ThreadFrame

\* an unwrap of None, or an index past a list, stops the kernel
ThreadPanic ==
    /\ panicked' = TRUE
    /\ UNCHANGED <<ioVars, procVars, fsVars, actions, ret, op, caller, strideVars, threadVars>>

\* Process::from_elf: the memory of a process just loaded
FreshMemory == [a \in Addrs |-> 0]

\* Process::exec (syscall) of the program `name`, whose name is read at path:
\* Process::exec replaces the address space of the process and the context
\* of pthreads[0]; a file that is no program stops the kernel in unwrap
ThreadExec(path, name) ==
    /\ InSyscall
    /\ LET t == running
           p == tid2pid[t]
           k == Trapped(t)
       IN  IF ~Translates(path) \/ name \notin Apps \cup files
           THEN /\ Syscall("exec", 0, 0, ~Translates(path), -1, k)
                /\ UNCHANGED <<fd_table, procs, umem, nprocs, ntids, tid2pid, mutex_list,
                               holding>>
                /\ ThreadFrame
           ELSE IF name \notin Apps
           THEN ThreadPanic
           ELSE /\ umem' = [umem EXCEPT ![p] = FreshMemory]
                /\ Syscall("exec", 0, 0, FALSE, 0,
                           [k EXCEPT !.context[pthreads[p][1]] = UserContext(0)])
                /\ UNCHANGED <<fd_table, procs, nprocs, ntids, tid2pid, mutex_list, holding>>
                /\ ThreadFrame

\* Thread::thread_create: a thread of the current process that starts at
\* entry with arg in a0
ThreadCreate(entry, arg) ==
    /\ InSyscall /\ ntids < MaxThreads
    /\ LET t == running
           p == tid2pid[t]
           k == Trapped(t)
       IN  /\ ntids' = NewTid
           /\ tid2pid' = [tid2pid EXCEPT ![NewTid] = p]
           /\ Syscall("thread_create", entry, arg, FALSE, NewTid,
                      [k EXCEPT !.context[NewTid] = [UserContext(entry) EXCEPT !.a0 = arg],
                                !.pthreads[p] = Append(@, NewTid),
                                !.state[NewTid] = "ready",
                                !.thread_queue = Append(@, NewTid)])
    /\ UNCHANGED <<fd_table, procs, umem, nprocs, mutex_list, holding>>
    /\ ThreadFrame

\* Signal::kill
ThreadKill(pid, signum) ==
    /\ InSyscall
    /\ LET k == Trapped(running)
       IN  IF pid \in procs /\ signum \in 1..MAX_SIG
           THEN Syscall("kill", pid, signum, FALSE, 0,
                        [k EXCEPT !.signal[pid].received = @ \cup {signum}])
           ELSE Syscall("kill", pid, signum, FALSE, -1, k)
    /\ UNCHANGED <<fd_table, procs, umem, nprocs, ntids, tid2pid, mutex_list, holding>>
    /\ ThreadFrame

\* Signal::sigaction
ThreadSigaction(signum, action, old_action) ==
    /\ InSyscall
    /\ LET p == tid2pid[running]
           k == Trapped(running)
           r == sigaction(umem[p], actions[p], signum, action, old_action)
       IN  /\ umem' = [umem EXCEPT ![p] = r.umem]
           /\ Syscall("sigaction", signum, 0, r.fault, r.ret,
                      [k EXCEPT !.actions[p] = r.actions])
    /\ UNCHANGED <<fd_table, procs, nprocs, ntids, tid2pid, mutex_list, holding>>
    /\ ThreadFrame

\* Signal::sigprocmask: update_mask replaces the mask and returns the old one
ThreadSigprocmask(mask) ==
    /\ InSyscall
    /\ LET p == tid2pid[running]
           k == Trapped(running)
       IN  Syscall("sigprocmask", 0, 0, FALSE, signal[p].mask,
                   [k EXCEPT !.signal[p].mask = mask])
    /\ UNCHANGED <<fd_table, procs, umem, nprocs, ntids, tid2pid, mutex_list, holding>>
    /\ ThreadFrame

\* Signal::sigreturn: sig_return puts back the context handle_signals saved,
\* if there is one
ThreadSigreturn ==
    /\ InSyscall
    /\ LET t == running
           p == tid2pid[t]
           k == Trapped(t)
       IN  IF signal[p].saved # <<>>
           THEN Syscall("sigreturn", 0, 0, FALSE, 0,
                        [k EXCEPT !.context[t] = signal[p].saved[1],
                                  !.signal[p].saved = <<>>])
           ELSE Syscall("sigreturn", 0, 0, FALSE, -1, k)
    /\ UNCHANGED <<fd_table, procs, umem, nprocs, ntids, tid2pid, mutex_list, holding>>
    /\ ThreadFrame

\* mutex_list[mutex_id].as_ref().unwrap() succeeds in process p
HasMutex(p, mutex_id) ==
    mutex_id < Len(mutex_list[p]) /\ mutex_list[p][mutex_id + 1] # <<>>

\* SyncMutex::mutex_create: the first empty slot, or a new one at the end;
\* a mutex that is not blocking leaves its slot empty
ThreadMutexCreate(blocking) ==
    /\ InSyscall
    /\ LET p == tid2pid[running]
           lst == mutex_list[p]
           new_mutex == IF blocking THEN <<NewMutex>> ELSE <<>>
           free == {i \in 1..Len(lst) : lst[i] = <<>>}
       IN  IF free # {}
           THEN LET id == CHOOSE i \in free : \A j \in free : i <= j
                IN  /\ mutex_list' = [mutex_list EXCEPT ![p][id] = new_mutex]
                    /\ Syscall("mutex_create", 0, 0, FALSE, id - 1, Trapped(running))
           ELSE /\ Len(lst) < MaxMutexes
                /\ mutex_list' = [mutex_list EXCEPT ![p] = Append(lst, new_mutex)]
                /\ Syscall("mutex_create", 0, 0, FALSE, Len(lst), Trapped(running))
    /\ UNCHANGED <<fd_table, procs, umem, nprocs, ntids, tid2pid, holding>>
    /\ ThreadFrame

\* SyncMutex::mutex_lock: 0 when the lock is taken, -1 when the caller has
\* been put in the wait queue of the mutex
ThreadMutexLock(mutex_id) ==
    /\ InSyscall
    /\ LET t == running
           p == tid2pid[t]
       IN  IF ~HasMutex(p, mutex_id)
           THEN ThreadPanic
           ELSE LET l == MutexLock(mutex_list[p][mutex_id + 1][1], t)
                IN  /\ mutex_list' = [mutex_list EXCEPT ![p][mutex_id + 1] = <<l.mutex>>]
                    /\ holding' = IF l.locked
                                  THEN [holding EXCEPT ![t] = @ \cup {mutex_id}]
                                  ELSE holding
                    /\ Syscall("mutex_lock", mutex_id, 0, FALSE,
                               IF l.locked THEN 0 ELSE -1, Trapped(t))
                    /\ UNCHANGED <<fd_table, procs, umem, nprocs, ntids, tid2pid>>
                    /\ ThreadFrame

\* SyncMutex::mutex_unlock: the mutex is unlocked whoever calls, and the
\* thread it wakes goes back to the ready queue (re_enque), past its lock
ThreadMutexUnlock(mutex_id) ==
    /\ InSyscall
    /\ LET t == running
           p == tid2pid[t]
           k == Trapped(t)
       IN  IF ~HasMutex(p, mutex_id)
           THEN ThreadPanic
           ELSE LET u == MutexUnlock(mutex_list[p][mutex_id + 1][1])
                    released == [holding EXCEPT ![t] = @ \ {mutex_id}]
                IN  /\ mutex_list' = [mutex_list EXCEPT ![p][mutex_id + 1] = <<u.mutex>>]
                    /\ IF u.woken # <<>>
                       THEN /\ holding' = [released EXCEPT ![u.woken[1]] = @ \cup {mutex_id}]
                            /\ Syscall("mutex_unlock", mutex_id, 0, FALSE, 0,
                                       [k EXCEPT !.state[u.woken[1]] = "ready",
                                                 !.thread_queue = Append(@, u.woken[1])])
                       ELSE /\ holding' = released
                            /\ Syscall("mutex_unlock", mutex_id, 0, FALSE, 0, k)
                    /\ UNCHANGED <<fd_table, procs, umem, nprocs, ntids, tid2pid>>
                    /\ ThreadFrame

\* Semaphore::new(res_count)
NewSemaphore(res_count) == [count |-> res_count, wait_queue |-> <<>>]

\* Semaphore::down(tid): whether the caller goes on, and the semaphore
\* afterwards
SemaphoreDown(sm, tid) ==
    IF sm.count - 1 >= 0
    THEN [ok |-> TRUE, sem |-> [sm EXCEPT !.count = @ - 1]]
    ELSE [ok |-> FALSE, sem |-> [count |-> sm.count - 1,
                                 wait_queue |-> Append(sm.wait_queue, tid)]]

\* Semaphore::up(): the thread woken (<<>>: none) and the semaphore afterwards
SemaphoreUp(sm) ==
    IF sm.count + 1 <= 0 /\ sm.wait_queue # <<>>
    THEN [woken |-> <<Head(sm.wait_queue)>>,
          sem |-> [count |-> sm.count + 1, wait_queue |-> Tail(sm.wait_queue)]]
    ELSE [woken |-> <<>>, sem |-> [sm EXCEPT !.count = @ + 1]]

\* Condvar::new
NewCondvar == [wait_queue |-> <<>>]

\* Condvar::signal(): the thread woken (<<>>: none) and the condition variable
\* afterwards
CondvarSignal(cv) ==
    IF cv.wait_queue # <<>>
    THEN [woken |-> <<Head(cv.wait_queue)>>, condvar |-> [wait_queue |-> Tail(cv.wait_queue)]]
    ELSE [woken |-> <<>>, condvar |-> cv]

\* Condvar::wait_with_mutex(tid, mutex): the caller joins the wait queue and
\* the mutex is unlocked; flag is whether the caller goes on, waking_tid the
\* thread the unlock woke
CondvarWaitWithMutex(cv, tid, m) ==
    LET u == MutexUnlock(m)
    IN  [flag |-> FALSE, waking_tid |-> u.woken,
         condvar |-> [wait_queue |-> Append(cv.wait_queue, tid)],
         mutex |-> u.mutex]

\* ProcessorInner::re_enque(tid) on the kernel state k
re_enque(k, tid) ==
    [k EXCEPT !.state[tid] = "ready", !.thread_queue = Append(@, tid)]

\* the first empty slot of a list of slots (0: none is empty)
FirstEmpty(lst) ==
    LET free == {i \in 1..Len(lst) : lst[i] = <<>>}
    IN  IF free = {} THEN 0 ELSE CHOOSE i \in free : \A j \in free : i <= j

\* semaphore_list[sem_id].as_ref().unwrap() succeeds in process p
HasSemaphore(p, sem_id) ==
    sem_id < Len(semaphore_list[p]) /\ semaphore_list[p][sem_id + 1] # <<>>

\* condvar_list[condvar_id].as_ref().unwrap() succeeds in process p
HasCondvar(p, condvar_id) ==
    condvar_id < Len(condvar_list[p]) /\ condvar_list[p][condvar_id + 1] # <<>>

\* what the system calls of the semaphores leave alone
SemFrame ==
    /\ UNCHANGED <<fd_table, procs, umem, nprocs, ntids, tid2pid, mutex_list, holding,
                   condvar_list, waiting>>
    /\ KernelFrame

\* SyncMutex::semaphore_create: the first empty slot, or a new one at the end
ThreadSemaphoreCreate(res_count) ==
    /\ InSyscall
    /\ LET p == tid2pid[running]
           lst == semaphore_list[p]
           hist == [n |-> res_count, ups |-> 0, downs |-> 0]
       IN  IF FirstEmpty(lst) # 0
           THEN /\ semaphore_list' = [semaphore_list EXCEPT
                                         ![p][FirstEmpty(lst)] = <<NewSemaphore(res_count)>>]
                /\ sem_hist' = [sem_hist EXCEPT ![p][FirstEmpty(lst)] = hist]
                /\ Syscall("semaphore_create", res_count, 0, FALSE, FirstEmpty(lst) - 1,
                           Trapped(running))
           ELSE /\ Len(lst) < MaxSems
                /\ semaphore_list' = [semaphore_list EXCEPT
                                         ![p] = Append(lst, <<NewSemaphore(res_count)>>)]
                /\ sem_hist' = [sem_hist EXCEPT ![p] = Append(@, hist)]
                /\ Syscall("semaphore_create", res_count, 0, FALSE, Len(lst), Trapped(running))
    /\ SemFrame

\* a semaphore_up that drops the tid the up returns
ThreadSemaphoreUp_NoRequeue(sem_id) ==
    /\ InSyscall
    /\ LET t == running
           p == tid2pid[t]
           k == Trapped(t)
       IN  IF ~HasSemaphore(p, sem_id)
           THEN ThreadPanic
           ELSE LET u == SemaphoreUp(semaphore_list[p][sem_id + 1][1])
                IN  /\ semaphore_list' = [semaphore_list EXCEPT ![p][sem_id + 1] = <<u.sem>>]
                    /\ sem_hist' = [sem_hist EXCEPT
                                       ![p][sem_id + 1].ups = @ + 1,
                                       ![p][sem_id + 1].downs =
                                           IF u.woken # <<>> THEN @ + 1 ELSE @]
                    /\ Syscall("semaphore_up", sem_id, 0, FALSE, 0, k)
                    /\ SemFrame

\* SyncMutex::semaphore_up: the thread the up wakes goes back to the ready
\* queue
ThreadSemaphoreUp(sem_id) ==
    /\ InSyscall
    /\ LET t == running
           p == tid2pid[t]
           k == Trapped(t)
       IN  IF ~HasSemaphore(p, sem_id)
           THEN ThreadPanic
           ELSE LET u == SemaphoreUp(semaphore_list[p][sem_id + 1][1])
                IN  /\ semaphore_list' = [semaphore_list EXCEPT ![p][sem_id + 1] = <<u.sem>>]
                    /\ sem_hist' = [sem_hist EXCEPT
                                       ![p][sem_id + 1].ups = @ + 1,
                                       ![p][sem_id + 1].downs =
                                           IF u.woken # <<>> THEN @ + 1 ELSE @]
                    /\ Syscall("semaphore_up", sem_id, 0, FALSE, 0,
                               IF u.woken # <<>> THEN re_enque(k, u.woken[1]) ELSE k)
                    /\ SemFrame

\* SyncMutex::semaphore_down: 0 when a unit is taken, -1 when the caller has
\* been put in the wait queue of the semaphore
ThreadSemaphoreDown(sem_id) ==
    /\ InSyscall
    /\ LET t == running
           p == tid2pid[t]
       IN  IF ~HasSemaphore(p, sem_id)
           THEN ThreadPanic
           ELSE LET d == SemaphoreDown(semaphore_list[p][sem_id + 1][1], t)
                IN  /\ semaphore_list' = [semaphore_list EXCEPT ![p][sem_id + 1] = <<d.sem>>]
                    /\ sem_hist' = [sem_hist EXCEPT
                                       ![p][sem_id + 1].downs = IF d.ok THEN @ + 1 ELSE @]
                    /\ Syscall("semaphore_down", sem_id, 0, FALSE,
                               IF d.ok THEN 0 ELSE -1, Trapped(t))
                    /\ SemFrame

\* what the system calls of the condition variables leave alone
CondFrame ==
    /\ UNCHANGED <<fd_table, procs, umem, nprocs, ntids, tid2pid, semaphore_list, sem_hist>>
    /\ KernelFrame

\* SyncMutex::condvar_create: the first empty slot, or a new one at the end
ThreadCondvarCreate(arg) ==
    /\ InSyscall
    /\ LET p == tid2pid[running]
           lst == condvar_list[p]
       IN  IF FirstEmpty(lst) # 0
           THEN /\ condvar_list' = [condvar_list EXCEPT ![p][FirstEmpty(lst)] = <<NewCondvar>>]
                /\ Syscall("condvar_create", arg, 0, FALSE, FirstEmpty(lst) - 1,
                           Trapped(running))
           ELSE /\ Len(lst) < MaxCondvars
                /\ condvar_list' = [condvar_list EXCEPT ![p] = Append(lst, <<NewCondvar>>)]
                /\ Syscall("condvar_create", arg, 0, FALSE, Len(lst), Trapped(running))
    /\ UNCHANGED <<mutex_list, holding, waiting>>
    /\ CondFrame

\* SyncMutex::condvar_signal: the thread the signal wakes goes back to the
\* ready queue
ThreadCondvarSignal(condvar_id) ==
    /\ InSyscall
    /\ LET t == running
           p == tid2pid[t]
           k == Trapped(t)
       IN  IF ~HasCondvar(p, condvar_id)
           THEN ThreadPanic
           ELSE LET g == CondvarSignal(condvar_list[p][condvar_id + 1][1])
                IN  /\ condvar_list' = [condvar_list EXCEPT ![p][condvar_id + 1] = <<g.condvar>>]
                    /\ Syscall("condvar_signal", condvar_id, 0, FALSE, 0,
                               IF g.woken # <<>> THEN re_enque(k, g.woken[1]) ELSE k)
                    /\ UNCHANGED <<mutex_list, holding, waiting>>
                    /\ CondFrame

\* SyncMutex::condvar_wait: the caller joins the wait queue of the condition
\* variable, the mutex is unlocked and the thread the unlock wakes goes back
\* to the ready queue; -1 when the caller is to be blocked
ThreadCondvarWait(condvar_id, mutex_id) ==
    /\ InSyscall
    /\ LET t == running
           p == tid2pid[t]
           k == Trapped(t)
       IN  IF ~HasCondvar(p, condvar_id) \/ ~HasMutex(p, mutex_id)
           THEN ThreadPanic
           ELSE LET w == CondvarWaitWithMutex(condvar_list[p][condvar_id + 1][1], t,
                                              mutex_list[p][mutex_id + 1][1])
                    released == [holding EXCEPT ![t] = @ \ {mutex_id}]
                IN  /\ condvar_list' = [condvar_list EXCEPT ![p][condvar_id + 1] = <<w.condvar>>]
                    /\ mutex_list' = [mutex_list EXCEPT ![p][mutex_id + 1] = <<w.mutex>>]
                    /\ holding' = IF w.waking_tid # <<>>
                                  THEN [released EXCEPT ![w.waking_tid[1]] = @ \cup {mutex_id}]
                                  ELSE released
                    /\ waiting' = [waiting EXCEPT ![t] = <<mutex_id>>]
                    /\ Syscall("condvar_wait", condvar_id, mutex_id, FALSE,
                               IF w.flag THEN 0 ELSE -1,
                               IF w.waking_tid # <<>> THEN re_enque(k, w.waking_tid[1]) ELSE k)
                    /\ CondFrame

-----------------------------------------------------------------------------
(* ch5/src/processor.rs, ch5/src/process.rs, ch5/src/main.rs: the stride scheduler *)

BIG_STRIDE == 1048576

\* Process::from_elf: the priority of a new process
DefaultPriority == 16

\* a pass that ignores the priority it is given
Pass_DefaultOnly(prio) == BIG_STRIDE \div DefaultPriority

\* the pass of a process of priority prio
Pass(prio) == BIG_STRIDE \div prio

\* the comparison of Schedule::fetch that takes `<=` for `<`
StrideBelow_OrEqual(s, min_stride) == min_stride = <<>> \/ s <= min_stride[1]

\* the comparison of Schedule::fetch, process.stride < min_stride;
\* <<>> stands for usize::MAX, which no stride of the model reaches
StrideBelow(s, min_stride) == min_stride = <<>> \/ s < min_stride[1]

\* the loop of Schedule::fetch over the ready queue q from position i on:
\* the position of the process it settles on (positions count from 1)
RECURSIVE FetchScan(_, _, _, _)
FetchScan(q, i, min_stride, min_index) ==
    IF i > Len(q) THEN min_index
    ELSE IF q[i] \in tasks /\ StrideBelow(stride[q[i]], min_stride)
    THEN FetchScan(q, i + 1, <<stride[q[i]]>>, i)
    ELSE FetchScan(q, i + 1, min_stride, min_index)

\* a fetch that takes the front of the queue whatever the strides
fetch_Front == Min(1, Len(ready_queue))

\* Schedule::fetch: the position taken out of the ready queue
fetch == FetchScan(ready_queue, 1, <<>>, 1)

\* VecDeque::remove
Remove(q, i) == SubSeq(q, 1, i - 1) \o SubSeq(q, i + 1, Len(q))

\* rust_main: find_next fetches a process and its stride grows by its pass;
\* a window under measurement counts the dispatch
FindNext ==
    /\ ~panicked /\ current = 0 /\ ready_queue # <<>>
    /\ LET pid == ready_queue[fetch]
       IN  /\ current' = pid
           /\ ready_queue' = Remove(ready_queue, fetch)
           /\ stride' = [stride EXCEPT ![pid] = @ + Pass(priority[pid])]
           /\ win' = IF win.open THEN [win EXCEPT !.n[pid] = @ + 1] ELSE win
    /\ ticks' = ticks + 1
    /\ UNCHANGED <<tasks, priority, nprocs, parent, ret, op, caller, panicked>>
    /\ UNCHANGED <<ioVars, exit_code, fsVars, actions, threadVars, memVars>>

\* what the system calls of chapter 5 leave alone
StrideFrame ==
    UNCHANGED <<ioVars, exit_code, fsVars, actions, panicked, stride, ticks, win, threadVars,
                memVars>>

\* make_current_suspend: the running process goes to the back of the queue q
Suspend(q) == ready_queue' = Append(q, current) /\ current' = 0

\* Scheduling::sched_yield
TrapYield ==
    /\ ~panicked /\ current # 0
    /\ ret' = 0 /\ SetOp("yield", 0, 0, FALSE) /\ caller' = current
    /\ Suspend(ready_queue)
    /\ UNCHANGED <<tasks, priority, nprocs, parent>> /\ StrideFrame

\* a set_priority that takes any priority
TrapSetPriority_Any(prio) ==
    /\ ~panicked /\ current # 0
    /\ ret' = prio /\ priority' = [priority EXCEPT ![current] = prio]
    /\ SetOp("set_priority", 0, prio, FALSE) /\ caller' = current
    /\ Suspend(ready_queue)
    /\ UNCHANGED <<tasks, nprocs, parent>> /\ StrideFrame

\* Scheduling::set_priority
TrapSetPriority(prio) ==
    /\ ~panicked /\ current # 0
    /\ IF prio < 2
       THEN ret' = -1 /\ UNCHANGED priority
       ELSE ret' = prio /\ priority' = [priority EXCEPT ![current] = prio]
    /\ SetOp("set_priority", 0, prio, FALSE) /\ caller' = current
    /\ Suspend(ready_queue)
    /\ UNCHANGED <<tasks, nprocs, parent>> /\ StrideFrame

\* Sv39::PAGE_BITS
PAGE_BITS == 12
PAGE_SIZE == 2 ^ PAGE_BITS

\* usize::MAX + 1: the arithmetic of usize wraps here
USIZE == 2 ^ UsizeBits

\* the page numbers of the address space
VPNs == 0..(USIZE \div PAGE_SIZE - 1)

\* VAddr::floor and VAddr::ceil: the page of an address, and the first page
\* at or above it
floor(addr) == addr \div PAGE_SIZE
\* a ceil that rounds down
ceil_Down(addr) == addr \div PAGE_SIZE
ceil(addr) == (addr + PAGE_SIZE - 1) \div PAGE_SIZE

\* build_flags("U_WRV")
U_WRV == {"U", "W", "R", "V"}
\* build_flags("__V")
CHECK_FLAGS == {"V"}

\* AddressSpace::translate(addr, flags): some page holds addr and has the flags
translate(space, addr, flags) ==
    floor(addr) \in VPNs /\ flags \subseteq space[floor(addr)] /\ flags # {}

\* AddressSpace::map(lo..hi, .., flags) and AddressSpace::unmap(lo..hi), on
\* page numbers
map(space, lo, hi, flags) ==
    [v \in VPNs |-> IF lo <= v /\ v < hi THEN flags ELSE space[v]]
unmap(space, lo, hi) ==
    [v \in VPNs |-> IF lo <= v /\ v < hi THEN {} ELSE space[v]]

\* Process::from_elf: the end of the program image, page aligned, and the
\* address space: the image in the first page, the two pages of the user
\* stack at the top
ElfEnd == PAGE_SIZE
ElfSpace ==
    [v \in VPNs |-> IF v = 0 THEN {"U", "X", "R", "V"}
                    ELSE IF v >= USIZE \div PAGE_SIZE - 2 THEN U_WRV
                    ELSE {}]

\* a change_program_brk that does not look at the bottom of the heap
change_program_brk_NoBottom(proc, size) ==
    [ok |-> TRUE, old_brk |-> proc.program_brk,
     proc |-> [proc EXCEPT !.program_brk = @ + size]]

\* Process::change_program_brk(size) on the fields proc: whether it succeeds,
\* the old break and the fields afterwards
change_program_brk(proc, size) ==
    LET old_brk == proc.program_brk
        new_brk == proc.program_brk + size
        old_brk_ceil == ceil(old_brk)
        new_brk_ceil == ceil(new_brk)
    IN  IF new_brk < proc.heap_bottom
        THEN [ok |-> FALSE, old_brk |-> old_brk, proc |-> proc]
        ELSE [ok |-> TRUE, old_brk |-> old_brk,
              proc |-> [proc EXCEPT
                  !.program_brk = new_brk,
                  !.address_space =
                      IF size > 0 /\ new_brk_ceil > old_brk_ceil
                      THEN map(@, old_brk_ceil, new_brk_ceil, U_WRV)
                      ELSE IF size < 0 /\ old_brk_ceil > new_brk_ceil
                      THEN unmap(@, new_brk_ceil, old_brk_ceil)
                      ELSE @]]

\* the memory fields of process p
MemOf(p) ==
    [address_space |-> address_space[p], heap_bottom |-> heap_bottom[p],
     program_brk |-> program_brk[p]]

\* what the system calls of the memory of chapter 5 leave alone
MemFrame ==
    /\ UNCHANGED <<tasks, priority, nprocs, parent>>
    /\ UNCHANGED <<ioVars, exit_code, fsVars, actions, panicked, stride, ticks, win, threadVars>>

\* AddressSpace::map on a range that holds a mapped page and
\* AddressSpace::unmap on a range that holds a page not mapped: each stops
\* the kernel
MapsMapped(space, lo, hi) ==
    \E v \in VPNs : lo <= v /\ v < hi /\ "V" \in space[v]
UnmapsUnmapped(space, lo, hi) ==
    \E v \in VPNs : lo <= v /\ v < hi /\ "V" \notin space[v]

\* Process::change_program_brk(size) stops the kernel in map or in unmap
BrkStops(proc, size) ==
    LET new_brk == proc.program_brk + size
        old_brk_ceil == ceil(proc.program_brk)
        new_brk_ceil == ceil(new_brk)
    IN  /\ new_brk >= proc.heap_bottom
        /\ \/ size > 0 /\ MapsMapped(proc.address_space, old_brk_ceil, new_brk_ceil)
           \/ size < 0 /\ UnmapsUnmapped(proc.address_space, new_brk_ceil, old_brk_ceil)

\* Process::sbrk: the kernel stops where change_program_brk maps a mapped
\* page or unmaps a page that is not mapped
TrapSbrk(size) ==
    /\ ~panicked /\ current # 0
    /\ program_brk[current] + size <= heap_bottom[current] + MaxHeap * PAGE_SIZE
    /\ SetOp("sbrk", size, 0, FALSE) /\ caller' = current
    /\ IF BrkStops(MemOf(current), size)
       THEN /\ panicked' = TRUE
            /\ UNCHANGED <<ioVars, procVars, fsVars, actions, ret, strideVars, threadVars>>
       ELSE /\ LET c == change_program_brk(MemOf(current), size)
               IN  /\ ret' = IF c.ok THEN c.old_brk ELSE -1
                   /\ address_space' = [address_space EXCEPT ![current] = c.proc.address_space]
                   /\ heap_bottom' = [heap_bottom EXCEPT ![current] = c.proc.heap_bottom]
                   /\ program_brk' = [program_brk EXCEPT ![current] = c.proc.program_brk]
            /\ Suspend(ready_queue)
            /\ MemFrame

\* an addition of usize values that does not fit: the build either panics
\* (overflow checks) or wraps
Overflows(x) == x >= USIZE
Wrap(x) == x % USIZE

\* prot & !0x7 != 0, for prot an i32
ProtOutside(prot) == prot < 0 \/ prot \div 8 # 0

\* the flags mmap builds from prot: U and V, and R, W, X for bits 0, 1, 2
ProtFlags(prot) ==
    {"U", "V"} \cup (IF prot % 2 = 1 THEN {"R"} ELSE {})
               \cup (IF (prot \div 2) % 2 = 1 THEN {"W"} ELSE {})
               \cup (IF (prot \div 4) % 2 = 1 THEN {"X"} ELSE {})

\* (len + PAGE_SIZE - 1) / PAGE_SIZE in usize
page_count(len) == Wrap(len + PAGE_SIZE - 1) \div PAGE_SIZE

\* some addition of mmap(addr, len, ..) or munmap(addr, len) does not fit
RangeOverflows(addr, len) ==
    \/ Overflows(len + PAGE_SIZE - 1)
    \/ Overflows(addr + page_count(len) * PAGE_SIZE)

\* the loop over the pages of the range: some page is mapped
AnyMapped(space, addr, len) ==
    \E i \in 0..(page_count(len) - 1) :
        translate(space, Wrap(addr + i * PAGE_SIZE), CHECK_FLAGS)

\* the loop over the pages of the range: some page is not mapped
AnyUnmapped(space, addr, len) ==
    \E i \in 0..(page_count(len) - 1) :
        ~translate(space, Wrap(addr + i * PAGE_SIZE), CHECK_FLAGS)

\* Memory::mmap(addr, len, prot, ..) on the address space: what it returns
\* and the address space afterwards
mmap(space, addr, len, prot) ==
    IF addr % PAGE_SIZE # 0
    THEN [ret |-> -1, space |-> space]
    ELSE IF ProtOutside(prot) \/ prot = 0
    THEN [ret |-> -1, space |-> space]
    ELSE IF len = 0
    THEN [ret |-> 0, space |-> space]
    ELSE IF AnyMapped(space, addr, len)
    THEN [ret |-> -1, space |-> space]
    ELSE [ret |-> 0,
          space |-> map(space, floor(addr),
                        ceil(Wrap(addr + page_count(len) * PAGE_SIZE)), ProtFlags(prot))]

\* Memory::munmap(addr, len) on the address space: what it returns and the
\* address space afterwards
munmap(space, addr, len) ==
    IF addr % PAGE_SIZE # 0
    THEN [ret |-> -1, space |-> space]
    ELSE IF len = 0
    THEN [ret |-> 0, space |-> space]
    ELSE IF AnyUnmapped(space, addr, len)
    THEN [ret |-> -1, space |-> space]
    ELSE [ret |-> 0,
          space |-> unmap(space, floor(addr),
                          ceil(Wrap(addr + page_count(len) * PAGE_SIZE)))]

\* Process::from_elf of chapter 5: the fields of a process just loaded
FromElf ==
    [stride |-> 0, priority |-> DefaultPriority,
     address_space |-> ElfSpace, heap_bottom |-> ElfEnd, program_brk |-> ElfEnd]

\* the panic handler, entered from a system call of chapter 5
TrapPanic ==
    /\ panicked' = TRUE
    /\ UNCHANGED <<ioVars, procVars, fsVars, actions, ret, op, caller, strideVars, threadVars>>

\* Memory::mmap: where an addition does not fit, the kernel panics or goes on
\* with the wrapped value
TrapMmap(addr, len, prot) ==
    /\ ~panicked /\ current # 0
    /\ \/ /\ addr % PAGE_SIZE = 0 /\ ~ProtOutside(prot) /\ prot # 0 /\ len # 0
          /\ RangeOverflows(addr, len)
          /\ TrapPanic
       \/ /\ LET r == mmap(address_space[current], addr, len, prot)
             IN  /\ ret' = r.ret
                 /\ address_space' = [address_space EXCEPT ![current] = r.space]
          /\ SetOp("mmap", addr, len, FALSE) /\ caller' = current
          /\ Suspend(ready_queue)
          /\ UNCHANGED <<heap_bottom, program_brk>>
          /\ MemFrame

\* Memory::munmap: where an addition does not fit, the kernel panics or goes
\* on with the wrapped value
TrapMunmap(addr, len) ==
    /\ ~panicked /\ current # 0
    /\ \/ /\ addr % PAGE_SIZE = 0 /\ len # 0
          /\ RangeOverflows(addr, len)
          /\ TrapPanic
       \/ /\ LET r == munmap(address_space[current], addr, len)
             IN  /\ ret' = r.ret
                 /\ address_space' = [address_space EXCEPT ![current] = r.space]
          /\ SetOp("munmap", addr, len, FALSE) /\ caller' = current
          /\ Suspend(ready_queue)
          /\ UNCHANGED <<heap_bottom, program_brk>>
          /\ MemFrame

\* Process::fork of chapter 5: the fields of the child of process p
ForkProcess(p) ==
    [stride |-> 0, priority |-> priority[p],
     address_space |-> address_space[p], heap_bottom |-> heap_bottom[p],
     program_brk |-> program_brk[p]]

\* Process::exec of chapter 5 on a process with the fields proc: what
\* from_elf built is taken over, except the stride and the priority
ExecProcess(proc) == [FromElf EXCEPT !.stride = proc.stride, !.priority = proc.priority]

\* Process::fork of chapter 5: the child starts with stride 0 and the
\* priority of the parent, and enters the ready queue before the parent
\* is suspended
TrapFork ==
    /\ ~panicked /\ current # 0 /\ nprocs < MaxProcs
    /\ nprocs' = NewPid
    /\ tasks' = tasks \cup {NewPid}
    /\ parent' = [parent EXCEPT ![NewPid] = current]
    /\ stride' = [stride EXCEPT ![NewPid] = ForkProcess(current).stride]
    /\ priority' = [priority EXCEPT ![NewPid] = ForkProcess(current).priority]
    /\ address_space' = [address_space EXCEPT ![NewPid] = ForkProcess(current).address_space]
    /\ heap_bottom' = [heap_bottom EXCEPT ![NewPid] = ForkProcess(current).heap_bottom]
    /\ program_brk' = [program_brk EXCEPT ![NewPid] = ForkProcess(current).program_brk]
    /\ ret' = NewPid /\ SetOp("fork", 0, 0, FALSE) /\ caller' = current
    /\ Suspend(Append(ready_queue, NewPid))
    /\ UNCHANGED <<ioVars, exit_code, fsVars, actions, panicked, ticks, win, threadVars>>

\* Process::exec of chapter 5 of the program `name`, whose name is read at
\* path: the address space is replaced, the stride and the priority stay
TrapExec(path, name) ==
    /\ ~panicked /\ current # 0
    /\ IF Translates(path) /\ name \in Apps
       THEN LET proc == ExecProcess([stride |-> stride[current],
                                     priority |-> priority[current]])
            IN  /\ ret' = 0
                /\ umem' = [umem EXCEPT ![current] = FreshMemory]
                /\ stride' = [stride EXCEPT ![current] = proc.stride]
                /\ priority' = [priority EXCEPT ![current] = proc.priority]
                /\ address_space' = [address_space EXCEPT ![current] = proc.address_space]
                /\ heap_bottom' = [heap_bottom EXCEPT ![current] = proc.heap_bottom]
                /\ program_brk' = [program_brk EXCEPT ![current] = proc.program_brk]
       ELSE ret' = -1 /\ UNCHANGED <<umem, stride, priority, memVars>>
    /\ SetOp("exec", 0, 0, ~Translates(path)) /\ caller' = current
    /\ Suspend(ready_queue)
    /\ UNCHANGED <<tasks, nprocs, parent, ring, fd_table, procs, written, readOut, pipe_made,
                   exit_code, fsVars, actions, panicked, ticks, win, threadVars>>

\* Process::spawn of chapter 5 of the program `name`, whose name is read at
\* path: a process built by from_elf becomes a child of the caller and enters
\* the ready queue before the caller is suspended
TrapSpawn(path, name) ==
    /\ ~panicked /\ current # 0 /\ nprocs < MaxProcs
    /\ IF Translates(path) /\ name \in Apps
       THEN /\ nprocs' = NewPid
            /\ tasks' = tasks \cup {NewPid}
            /\ parent' = [parent EXCEPT ![NewPid] = current]
            /\ stride' = [stride EXCEPT ![NewPid] = FromElf.stride]
            /\ priority' = [priority EXCEPT ![NewPid] = FromElf.priority]
            /\ address_space' = [address_space EXCEPT ![NewPid] = FromElf.address_space]
            /\ heap_bottom' = [heap_bottom EXCEPT ![NewPid] = FromElf.heap_bottom]
            /\ program_brk' = [program_brk EXCEPT ![NewPid] = FromElf.program_brk]
            /\ ret' = NewPid
            /\ Suspend(Append(ready_queue, NewPid))
       ELSE /\ ret' = -1
            /\ Suspend(ready_queue)
            /\ UNCHANGED <<nprocs, tasks, parent, stride, priority, memVars>>
    /\ SetOp("spawn", 0, 0, ~Translates(path)) /\ caller' = current
    /\ UNCHANGED <<ioVars, exit_code, fsVars, actions, panicked, ticks, win, threadVars>>

\* Process::exit and make_current_exited: the process leaves the table
TrapExit ==
    /\ ~panicked /\ current # 0
    /\ tasks' = tasks \ {current}
    /\ current' = 0
    /\ ret' = 0 /\ SetOp("exit", 0, 0, FALSE) /\ caller' = current
    /\ UNCHANGED <<ready_queue, priority, nprocs, parent>> /\ StrideFrame

-----------------------------------------------------------------------------
(* tg-easy-fs/src/vfs.rs, ch6/src/fs.rs and ch6/src/main.rs: the root       *)
(* directory, hard links and fstat. Files are measured in blocks; the       *)
(* blocks of the directory itself (one, for fewer than 16 entries) are left *)
(* out.                                                                     *)

\* the inode numbers and the data blocks of the disk
InodeIds == 0..MaxInodes
BlockIds == 1..(AppSize + MaxBlocks)

\* the names a file of chapter 6 may have
EfsNames == Apps \cup {"f", "g"}

\* the file system on the disk, as the methods of Inode see it
Efs == [dirents |-> dirents, inode_bitmap |-> inode_bitmap,
        data_bitmap |-> data_bitmap, disk_inodes |-> disk_inodes]

\* the elements of a sequence
Range(seq) == {seq[i] : i \in DOMAIN seq}

\* Bitmap::alloc: the lowest clear bit; Bitmap::dealloc
alloc(bitmap, ids) == CHOOSE i \in ids \ bitmap : \A j \in ids \ bitmap : i <= j
dealloc(bitmap, i) == bitmap \ {i}

\* Inode::find_inode_id: the inode number of the first entry with the name
find_inode_id(d, name) ==
    LET hits == {i \in DOMAIN d : d[i].name = name}
    IN  IF hits = {} THEN <<>>
        ELSE <<d[CHOOSE i \in hits : \A j \in hits : i <= j].inode_number>>

\* the loop of Inode::count_links, from entry i on
RECURSIVE CountLoop(_, _, _)
CountLoop(d, i, target_inode_id) ==
    IF i > Len(d) THEN 0
    ELSE (IF d[i].inode_number = target_inode_id THEN 1 ELSE 0)
         + CountLoop(d, i + 1, target_inode_id)

\* count_links that stops at the first entry of the inode
count_links_First(d, target_inode_id) ==
    IF \E i \in DOMAIN d : d[i].inode_number = target_inode_id THEN 1 ELSE 0

\* Inode::count_links
count_links(d, target_inode_id) == CountLoop(d, 1, target_inode_id)

\* Inode::get_stat_info of the inode with number id
get_stat_info(fs, id) == [ino |-> id, nlink |-> count_links(fs.dirents, id)]

\* Inode::increase_size: data blocks are allocated until the inode has new_size
RECURSIVE increase_size(_, _, _)
increase_size(fs, id, new_size) ==
    IF new_size <= Len(fs.disk_inodes[id]) THEN fs
    ELSE LET b == alloc(fs.data_bitmap, BlockIds)
         IN  increase_size([fs EXCEPT !.data_bitmap = @ \cup {b},
                                      !.disk_inodes[id] = Append(@, b)],
                           id, new_size)

\* Inode::write_at of len blocks at offset
write_at(fs, id, offset, len) == increase_size(fs, id, offset + len)

\* Inode::create: a new inode, initialized, and its entry at the end
create(fs, name) ==
    LET new_inode_id == alloc(fs.inode_bitmap, InodeIds)
    IN  [inode |-> new_inode_id,
         fs |-> [fs EXCEPT !.inode_bitmap = @ \cup {new_inode_id},
                           !.disk_inodes[new_inode_id] = <<>>,
                           !.dirents = Append(@, [name |-> name,
                                                  inode_number |-> new_inode_id])]]

\* Inode::clear: clear_size and dealloc_data of every block
clear(fs, id) ==
    [fs EXCEPT !.data_bitmap = @ \ Range(fs.disk_inodes[id]),
               !.disk_inodes[id] = <<>>]

\* Inode::link: a new entry for an inode that exists
link(fs, name, target_inode_id) ==
    IF find_inode_id(fs.dirents, name) # <<>>
    THEN [ok |-> FALSE, fs |-> fs]
    ELSE [ok |-> TRUE,
          fs |-> [fs EXCEPT !.dirents = Append(@, [name |-> name,
                                                   inode_number |-> target_inode_id])]]

\* a sequence without its element at index
RemoveAt(seq, index) ==
    [i \in 1..(Len(seq) - 1) |-> IF i < index THEN seq[i] ELSE seq[i + 1]]

\* unlink that frees the inode whatever entries are left
unlink_AlwaysFree(fs, name) ==
    LET found == find_inode_id(fs.dirents, name)
    IN  IF found = <<>> THEN [ok |-> FALSE, fs |-> fs]
        ELSE LET inode_id == found[1]
                 index == CHOOSE i \in DOMAIN fs.dirents :
                              /\ fs.dirents[i].name = name
                              /\ \A j \in 1..(i - 1) : fs.dirents[j].name # name
                 removed == [fs EXCEPT !.dirents = RemoveAt(@, index)]
             IN  [ok |-> TRUE,
                  fs |-> [clear(removed, inode_id) EXCEPT
                              !.inode_bitmap = dealloc(@, inode_id)]]

\* Inode::unlink: the entry is removed, and the inode is freed with its data
\* when count_links finds no entry left for it
unlink(fs, name) ==
    LET found == find_inode_id(fs.dirents, name)
    IN  IF found = <<>> THEN [ok |-> FALSE, fs |-> fs]
        ELSE LET inode_id == found[1]
                 index == CHOOSE i \in DOMAIN fs.dirents :
                              /\ fs.dirents[i].name = name
                              /\ \A j \in 1..(i - 1) : fs.dirents[j].name # name
                 removed == [fs EXCEPT !.dirents = RemoveAt(@, index)]
                 nlink == count_links(removed.dirents, inode_id)
             IN  [ok |-> TRUE,
                  fs |-> IF nlink = 0
                         THEN [clear(removed, inode_id) EXCEPT
                                   !.inode_bitmap = dealloc(@, inode_id)]
                         ELSE removed]

\* FileSystem::open of chapter 6: the handle, if any, and the disk afterwards
FsOpen(fs, path, flags) ==
    LET rw == read_write(flags)
        found == find_inode_id(fs.dirents, path)
        new(inode) == <<[inode |-> inode, offset |-> 0, read |-> rw[1], write |-> rw[2]]>>
    IN  IF contains(flags, CREATE)
        THEN IF found # <<>>
             THEN [handle |-> new(found[1]), fs |-> clear(fs, found[1])]
             ELSE LET c == create(fs, path)
                  IN  [handle |-> new(c.inode), fs |-> c.fs]
        ELSE IF found # <<>>
             THEN [handle |-> new(found[1]),
                   fs |-> IF contains(flags, TRUNC) THEN clear(fs, found[1]) ELSE fs]
             ELSE [handle |-> <<>>, fs |-> fs]

\* FileSystem::link
FsLink(fs, src, dst) ==
    LET found == find_inode_id(fs.dirents, src)
    IN  IF found # <<>>
        THEN LET l == link(fs, dst, found[1])
             IN  [ret |-> IF l.ok THEN 0 ELSE -1, fs |-> l.fs]
        ELSE [ret |-> -1, fs |-> fs]

\* FileSystem::unlink
FsUnlink(fs, path) ==
    LET u == unlink(fs, path)
    IN  [ret |-> IF u.ok THEN 0 ELSE -1, fs |-> u.fs]

\* the disk becomes fs
SetEfs(fs) ==
    /\ dirents' = fs.dirents
    /\ inode_bitmap' = fs.inode_bitmap
    /\ data_bitmap' = fs.data_bitmap
    /\ disk_inodes' = fs.disk_inodes

\* what the system calls of chapter 6 on files leave alone
EfsFrame ==
    UNCHANGED <<ioVars, procVars, files, inode_size, actions, caller, strideVars, threadVars>>

\* the fd of the first file a process opens, and the slot of fd in handles
FirstFd == Len(InitFdTable)
HandleOf(fd) ==
    IF fd >= FirstFd /\ fd - FirstFd < Len(handles) THEN handles[fd - FirstFd + 1] ELSE <<>>

\* IO::open of chapter 6: the path at `path` names the file `name`
Open6(path, name, flags) ==
    /\ ~panicked /\ Len(handles) < MaxHandles
    /\ (contains(flags, CREATE) /\ find_inode_id(dirents, name) = <<>>)
       => InodeIds \ inode_bitmap # {}
    /\ IF ~Translates(path)
       THEN /\ ret' = -1 /\ SetOp("open", flags, 0, TRUE)
            /\ UNCHANGED <<efsVars, panicked>>
       ELSE IF ~from_bits(flags)
       THEN panicked' = TRUE /\ UNCHANGED <<efsVars, ret, op>>
       ELSE LET o == FsOpen(Efs, name, flags)
            IN  /\ SetEfs(o.fs)
                /\ IF o.handle # <<>>
                   THEN /\ ret' = FirstFd + Len(handles)
                        /\ handles' = Append(handles, o.handle)
                   ELSE ret' = -1 /\ UNCHANGED handles
                /\ SetOp("open", flags, 0, FALSE)
                /\ UNCHANGED <<stat, panicked>>
    /\ EfsFrame

\* IO::close of chapter 6, on the fd of a file
Close6(fd) ==
    /\ ~panicked /\ fd >= FirstFd
    /\ IF HandleOf(fd) = <<>>
       THEN ret' = -1 /\ UNCHANGED handles
       ELSE ret' = 0 /\ handles' = [handles EXCEPT ![fd - FirstFd + 1] = <<>>]
    /\ SetOp("close", fd, 0, FALSE)
    /\ UNCHANGED <<dirents, inode_bitmap, data_bitmap, disk_inodes, stat, panicked>>
    /\ EfsFrame

\* IO::write of chapter 6 of count blocks, on the fd of a file
Write6(fd, buf, count) ==
    /\ ~panicked /\ fd >= FirstFd
    /\ SetOp("write", fd, count, ~Translates(buf))
    /\ IF ~Translates(buf)
       THEN ret' = -1 /\ UNCHANGED <<efsVars, panicked>>
       ELSE IF fd - FirstFd >= Len(handles)
       THEN panicked' = TRUE /\ ret' = ret /\ UNCHANGED efsVars
       ELSE IF HandleOf(fd) = <<>> \/ ~HandleOf(fd)[1].write
       THEN ret' = -1 /\ UNCHANGED <<efsVars, panicked>>
       ELSE LET h == HandleOf(fd)[1]
            IN  /\ h.offset + count - Len(disk_inodes[h.inode])
                       <= Cardinality(BlockIds \ data_bitmap)
                /\ SetEfs(write_at(Efs, h.inode, h.offset, count))
                /\ handles' = [handles EXCEPT ![fd - FirstFd + 1] =
                                   <<[h EXCEPT !.offset = @ + count]>>]
                /\ ret' = count
                /\ UNCHANGED <<stat, panicked>>
    /\ EfsFrame

\* IO::linkat
Linkat(oldpath, old_name, newpath, new_name) ==
    /\ ~panicked
    /\ SetOp("linkat", 0, 0, ~Translates(oldpath) \/ ~Translates(newpath))
    /\ IF ~Translates(oldpath) \/ ~Translates(newpath) \/ old_name = new_name
       THEN ret' = -1 /\ UNCHANGED <<dirents, inode_bitmap, data_bitmap, disk_inodes>>
       ELSE LET l == FsLink(Efs, old_name, new_name)
            IN  ret' = l.ret /\ SetEfs(l.fs)
    /\ UNCHANGED <<handles, stat, panicked>>
    /\ EfsFrame

\* IO::unlinkat
Unlinkat(path, name) ==
    /\ ~panicked
    /\ SetOp("unlinkat", 0, 0, ~Translates(path))
    /\ IF ~Translates(path)
       THEN ret' = -1 /\ UNCHANGED <<dirents, inode_bitmap, data_bitmap, disk_inodes>>
       ELSE LET u == FsUnlink(Efs, name)
            IN  ret' = u.ret /\ SetEfs(u.fs)
    /\ UNCHANGED <<handles, stat, panicked>>
    /\ EfsFrame

\* IO::fstat: the Stat of the file of fd is stored at st
Fstat(fd, st) ==
    /\ ~panicked
    /\ SetOp("fstat", fd, 0, ~Translates(st))
    /\ IF HandleOf(fd) = <<>> \/ ~Translates(st)
       THEN ret' = -1 /\ UNCHANGED stat
       ELSE ret' = 0 /\ stat' = get_stat_info(Efs, HandleOf(fd)[1].inode)
    /\ UNCHANGED <<dirents, inode_bitmap, data_bitmap, disk_inodes, handles, panicked>>
    /\ EfsFrame

-----------------------------------------------------------------------------
(* The initial state: initproc alone, loaded from its ELF *)


\* the signal numbers of the model; 0 is SignalNo::ERR
Sigs == 0..MAX_SIG

Init ==
    /\ ring = NewRing
    /\ procs = {1}
    /\ fd_table = [p \in Pids |-> IF p = 1 THEN InitFdTable ELSE <<>>]
    /\ written = <<>>
    /\ readOut = <<>>
    /\ pipe_made = FALSE
    /\ umem = [p \in Pids |-> [a \in Addrs |-> 0]]
    /\ panicked = FALSE
    /\ ret = 0
    /\ op = [name |-> "boot", fd |-> 0, count |-> 0, fault |-> FALSE]
    /\ caller = 0
    /\ nprocs = 1
    /\ parent = [p \in Pids |-> 0]
    /\ exit_code = [p \in Pids |-> <<>>]
    /\ files = {}
    /\ inode_size = [name \in FsNames |-> IF name \in Apps THEN AppSize ELSE 0]
    /\ actions = [p \in Pids |-> [s \in Sigs |-> 0]]
    /\ tasks = {1}
    /\ ready_queue = <<1>>
    /\ stride = [p \in Pids |-> 0]
    /\ priority = [p \in Pids |-> DefaultPriority]
    /\ current = 0
    /\ ticks = 0
    /\ win = [open |-> FALSE, balanced |-> FALSE, n |-> [p \in Pids |-> 0]]
    /\ ntids = 1
    /\ tid2pid = [t \in Tids |-> IF t = 1 THEN 1 ELSE 0]
    /\ pthreads = [p \in Pids |-> IF p = 1 THEN <<1>> ELSE <<>>]
    /\ context = [t \in Tids |-> UserContext(0)]
    /\ state = [t \in Tids |-> IF t = 1 THEN "ready" ELSE "none"]
    /\ thread_queue = <<1>>
    /\ running = 0
    /\ thread_exit = [t \in Tids |-> <<>>]
    /\ signal = [p \in Pids |-> NewSignal]
    /\ mutex_list = [p \in Pids |-> <<>>]
    /\ holding = [t \in Tids |-> {}]
    /\ semaphore_list = [p \in Pids |-> <<>>]
    /\ condvar_list = [p \in Pids |-> <<>>]
    /\ sem_hist = [p \in Pids |-> <<>>]
    /\ waiting = [t \in Tids |-> <<>>]
    /\ address_space = [p \in Pids |-> FromElf.address_space]
    /\ heap_bottom = [p \in Pids |-> FromElf.heap_bottom]
    /\ program_brk = [p \in Pids |-> FromElf.program_brk]
    /\ dirents = <<[name |-> "app", inode_number |-> 1]>>
    /\ inode_bitmap = {0, 1}
    /\ data_bitmap = 1..AppSize
    /\ disk_inodes = [id \in InodeIds |-> IF id = 1 THEN [i \in 1..AppSize |-> i] ELSE <<>>]
    /\ handles = <<>>
    /\ stat = [ino |-> 0, nlink |-> 0]

-----------------------------------------------------------------------------
(* The pipe: one pipe, its two ends shared by fork, written and read in pieces *)

Counts == (0..MaxCount) \cup {RING_BUFFER_SIZE + 1}

\* the fds IO::pipe hands out in a process that has only its three standard ones
PipeReadFd == Len(InitFdTable)
PipeWriteFd == Len(InitFdTable) + 1

\* a user buffer that translates
GoodBuf == CHOOSE a \in Addrs : Translates(a)

PipeCreate == \E p \in procs : SysPipe(p, GoodBuf) /\ By(caller)
PipeFork == \E p \in procs : pipe_made /\ SysForkProc(p) /\ By(caller)
PipeCloseWrite == \E p \in procs : SysClose(p, PipeWriteFd) /\ By(caller)
PipeRead ==
    \E p \in procs, count \in Counts :
        pipe_made /\ SysRead(p, PipeReadFd, GoodBuf, count) /\ By(caller)
PipeWrite ==
    \E p \in procs, count \in Counts :
        /\ pipe_made
        /\ Len(written) + Min(count, available_write(ring)) <= MaxStream
        /\ SysWrite(p, PipeWriteFd, GoodBuf, count)
        /\ By(caller)

NextPipe == PipeCreate \/ PipeFork \/ PipeCloseWrite \/ PipeRead \/ PipeWrite

SpecPipe == Init /\ [][NextPipe]_vars

IsPrefix(s, t) == Len(s) <= Len(t) /\ SubSeq(t, 1, Len(s)) = s

\* C2: the bytes returned by the reads of the pipe, taken together, are always
\* a prefix of the bytes accepted by its writes: same order, nothing lost,
\* nothing twice, also after head and tail have wrapped around the ring.
C2_PipeFifo == IsPrefix(readOut, written)

\* head and tail have both wrapped around the ring, a read has just returned
\* bytes stored after the wrap, and more of them are still buffered
C2_Witness ==
    /\ Len(readOut) > RING_BUFFER_SIZE
    /\ ring.head < RING_BUFFER_SIZE - 1 /\ ring.tail > ring.head
    /\ op.name = "read" /\ ret >= 1

\* the bytes the ring holds: accepted by a write and not yet returned by a read
Unread == SubSeq(written, Len(readOut) + 1, Len(written))

\* C40: in every state of the ring buffer of a pipe, the status is Empty
\* exactly when it holds no byte and Full exactly when it holds
\* RING_BUFFER_SIZE bytes, head = tail exactly when the status is Empty or
\* Full, available_read and available_write add up to RING_BUFFER_SIZE, and
\* the slots from head on hold the unread bytes in the order they were
\* written: no write has overwritten an unread byte, and a read returns
\* neither a byte never written nor one read before.
C40_RingConsistent ==
    /\ Len(readOut) <= Len(written)
    /\ ring.status = "Empty" <=> Len(Unread) = 0
    /\ ring.status = "Full" <=> Len(Unread) = RING_BUFFER_SIZE
    /\ ring.head = ring.tail <=> ring.status \in {"Empty", "Full"}
    /\ available_read(ring) = Len(Unread)
    /\ available_read(ring) + available_write(ring) = RING_BUFFER_SIZE
    /\ \A k \in 1..Len(Unread) :
           ring.arr[(ring.head + k - 1) % RING_BUFFER_SIZE] = Unread[k]
    /\ readOut = SubSeq(written, 1, Len(readOut))

\* the ring is full with head and tail past the start of the array: bytes
\* have been read, and the writes since have wrapped around
C40_Witness ==
    /\ ring.status = "Full" /\ ring.head = ring.tail /\ ring.head > 0
    /\ Len(readOut) > 0 /\ Len(written) > RING_BUFFER_SIZE
    /\ op.name = "write" /\ ret >= 1

-----------------------------------------------------------------------------
(* The fd table: open, close, pipe and fork, with pointers that translate *)

FileNames == {"f"}

FdOpen ==
    \E p \in procs, name \in FileNames, creating \in BOOLEAN :
        /\ Len(fd_table[p]) < MaxFds
        /\ SysOpen(p, GoodBuf, name, IF creating THEN CREATE ELSE RDONLY) /\ By(p)
FdClose == \E p \in procs, fd \in 0..MaxFds : SysClose(p, fd) /\ By(p)
FdFork == \E p \in procs : SysForkProc(p) /\ By(p)

NextFd == FdOpen \/ FdClose \/ FdFork

SpecFd == Init /\ [][NextFd]_vars

\* the lowest index of an empty slot of the table
LowestFree(tbl) ==
    CHOOSE i \in 0..(Len(tbl) - 1) :
        tbl[i + 1] = None /\ \A j \in 0..(i - 1) : tbl[j + 1] # None

\* C4: when close(fd) has succeeded on an fd that open returned, slot fd of
\* the caller's table is None, and the open the same process makes next, if it
\* succeeds, returns the lowest free slot index, which is at most fd.
C4_OpenLowestFree ==
    [][ (/\ op.name = "close" /\ ret = 0 /\ op.fd >= Len(InitFdTable)
         /\ op'.name = "open" /\ caller' = caller /\ ret' >= 0)
        => /\ fd_table[caller][op.fd + 1] = None
           /\ ret' = LowestFree(fd_table[caller])
           /\ ret' <= op.fd
      ]_vars

-----------------------------------------------------------------------------
(* read, write and close on any fd: the standard streams, the ends of a     *)
(* pipe, closed slots and fds past the table                                *)

IoPipe == \E p \in procs : SysPipe(p, GoodBuf) /\ By(p)
IoClose == \E p \in procs, fd \in 0..MaxFds : SysClose(p, fd) /\ By(p)
IoRead ==
    \E p \in procs, fd \in 0..MaxFds, count \in 0..MaxCount :
        SysRead(p, fd, GoodBuf, count) /\ By(p)
IoWrite ==
    \E p \in procs, fd \in 0..MaxFds, count \in 0..MaxCount :
        /\ Len(written) + count <= MaxIo
        /\ SysWrite(p, fd, GoodBuf, count) /\ By(p)

NextIo == IoPipe \/ IoClose \/ IoRead \/ IoWrite

SpecIo == Init /\ [][NextIo]_vars

\* the slot of fd in the table is missing or empty
NoSlot(tbl, fd) == fd >= Len(tbl) \/ tbl[fd + 1] = None

\* C22: read, write and close on an fd past the fd table or on an empty slot
\* return -1, read on an fd that is not readable and write on an fd that is
\* not writable return -1 and move no data, and the kernel runs on.
C22_BadFdMinusOne ==
    [][ \A p \in procs, fd \in 0..MaxFds, count \in 0..MaxCount :
            LET tbl == fd_table[p]
            IN  /\ (SysClose(p, fd) /\ NoSlot(tbl, fd))
                   => ret' = -1 /\ ~panicked'
                /\ (SysRead(p, fd, GoodBuf, count)
                      /\ (NoSlot(tbl, fd) \/ ~readable(tbl[fd + 1])))
                   => /\ ret' = -1 /\ ~panicked'
                      /\ ring' = ring /\ readOut' = readOut /\ umem' = umem
                /\ (SysWrite(p, fd, GoodBuf, count)
                      /\ (NoSlot(tbl, fd) \/ ~writable(tbl[fd + 1])))
                   => /\ ret' = -1 /\ ~panicked'
                      /\ ring' = ring /\ written' = written ]_vars

-----------------------------------------------------------------------------
(* Files opened with any flags: the programs of the image and a file that   *)
(* open may create                                                          *)

Flags == {RDONLY, WRONLY, RDWR, CREATE, CREATE + WRONLY, CREATE + RDWR,
          TRUNC, TRUNC + RDWR, CREATE + TRUNC, 4}

OpenAny ==
    \E p \in procs, name \in FsNames, flags \in Flags :
        /\ Len(fd_table[p]) < MaxFds
        /\ SysOpen(p, GoodBuf, name, flags) /\ By(p)
OpenClose == \E p \in procs, fd \in 0..MaxFds : SysClose(p, fd) /\ By(p)

NextOpen == OpenAny \/ OpenClose

SpecOpen == Init /\ [][NextOpen]_vars

\* C20: an open that returns leaves a file that exists without data if TRUNC
\* is in the flags and with the data it had if not, whether or not CREATE is
\* in the flags; a file that is missing is made exactly when CREATE is in the
\* flags; no other file changes.
C20_OpenTruncOnly ==
    [][ \A p \in procs, name \in FsNames, flags \in Flags :
            (SysOpen(p, GoodBuf, name, flags) /\ ~panicked')
            => /\ find(files, name)
                  => inode_size'[name] =
                         (IF contains(flags, TRUNC) THEN 0 ELSE inode_size[name])
               /\ ~find(files, name)
                  => (find(files', name) <=> contains(flags, CREATE))
               /\ \A other \in FsNames \ {name} :
                      inode_size'[other] = inode_size[other] ]_vars

\* C21: the handle an open returns is readable and not writable if the access
\* mode of the flags is RDONLY, writable and not readable if it is WRONLY, and
\* both if it is RDWR, whatever CREATE and TRUNC are.
C21_AccessModeAlone ==
    [][ \A p \in procs, name \in FsNames, flags \in Flags :
            (SysOpen(p, GoodBuf, name, flags) /\ ~panicked' /\ ret' >= 0)
            => LET slot == fd_table'[p][ret' + 1]
                   mode == flags % 4
               IN  /\ mode = RDONLY => readable(slot) /\ ~writable(slot)
                   /\ mode = WRONLY => writable(slot) /\ ~readable(slot)
                   /\ mode = RDWR => readable(slot) /\ writable(slot) ]_vars

-----------------------------------------------------------------------------
(* The system calls that take user pointers: any process, any pointer *)

\* a user pointer that does not translate
BadBuf == CHOOSE a \in Addrs \ {0} : ~Translates(a) /\ Translates(a - 1)

\* pointers handed to the calls: null, one whose word and the next translate,
\* one whose word translates but not the next, one that does not translate
Ptrs == {GoodBuf, BadBuf - 1, BadBuf}
ExitCodes == {1, 2}

PtrOpen ==
    \E p \in procs, path \in {GoodBuf, BadBuf}, name \in FileNames :
        /\ Len(fd_table[p]) < MaxFds
        /\ SysOpen(p, path, name, CREATE) /\ By(p)
PtrPipe ==
    \E p \in procs, pipe \in Ptrs :
        /\ Len(fd_table[p]) + 2 <= MaxFds
        /\ SysPipe(p, pipe) /\ By(p)
PtrFork == \E p \in procs : SysForkProc(p) /\ By(p)
PtrExit == \E p \in procs \ {1}, code \in ExitCodes : ExitProc(p, code) /\ By(p)
PtrWait ==
    \E p \in procs, pid \in {-1} \cup Pids, exit_code_ptr \in {GoodBuf, BadBuf} :
        SysWait(p, pid, exit_code_ptr) /\ By(p)
PtrSigaction ==
    \E p \in procs, signum \in 0..(MAX_SIG + 1),
       action \in {0, GoodBuf, BadBuf}, old_action \in {0, GoodBuf, BadBuf} :
        SysSigaction(p, signum, action, old_action) /\ By(p)

NextPtr == PtrOpen \/ PtrPipe \/ PtrFork \/ PtrExit \/ PtrWait \/ PtrSigaction

SpecPtr == Init /\ [][NextPtr]_vars

\* C5: a system call in which the translation of a user pointer fails
\* returns -1 and changes nothing else: no fd table, no process record (no
\* child is reaped), no word of user memory, no signal action, no file.
C5_FaultNoEffect ==
    [][ op'.fault =>
            /\ ret' = -1
            /\ UNCHANGED <<fd_table, procs, parent, exit_code, umem, actions, fsVars,
                           pipe_made, ring>>
      ]_vars

\* fork, exit, wait and close: any process, any pid waited for, any pointer
WaitFork == \E p \in procs : SysForkProc(p) /\ By(p)
WaitExit == \E p \in procs \ {1}, code \in ExitCodes : ExitProc(p, code) /\ By(p)
WaitWait ==
    \E p \in procs, pid \in {-1} \cup Pids, exit_code_ptr \in {GoodBuf, BadBuf} :
        SysWait(p, pid, exit_code_ptr) /\ By(p)

WaitClose == \E p \in procs, fd \in {STDIN, STDOUT} : SysClose(p, fd) /\ By(p)

NextWait == WaitFork \/ WaitExit \/ WaitWait \/ WaitClose

SpecWait == Init /\ [][NextWait]_vars

\* C11: a wait by process p for pid (-1: any child) that finds exited children
\* of p returns the pid of one of them (the child, when it is the only one),
\* stores the exit code of that child through a pointer that translates, and
\* removes its record; a wait that finds none returns -1; and a pid whose
\* record is removed never names a process again, so no later wait returns it.
C11_WaitReapsOnce ==
    [][ /\ \A c \in 1..nprocs : c \notin procs => c \notin procs'
        /\ (op'.name = "wait")
           => LET p == caller'
                  dead == ExitedChildren(p, op'.fd)
              IN  IF dead = {}
                  THEN ret' = -1 /\ procs' = procs /\ umem' = umem
                  ELSE /\ ret' \in dead
                       /\ procs' = procs \ {ret'}
                       /\ exit_code'[ret'] = <<>>
                       /\ Translates(op'.count)
                          => umem'[p][op'.count] = exit_code[ret'][1] ]_vars

\* the parent has waited for any child, got the pid of its forked child and
\* the exit code 2 of that child in its memory, and the child is gone
C11_Witness ==
    /\ op.name = "wait" /\ op.fd = -1 /\ caller = 1
    /\ ret = 2 /\ 2 \notin procs /\ nprocs >= 2
    /\ umem[1][op.count] = 2

-----------------------------------------------------------------------------
(* The files of chapter 6: a process opens, writes, links, unlinks and      *)
(* stats files of the root directory, in any order                          *)

LinkFlags == {RDONLY, CREATE + WRONLY, 4}
FileFds == FirstFd..(FirstFd + MaxHandles)

LinkOpen ==
    \E name \in EfsNames, flags \in LinkFlags : Open6(GoodBuf, name, flags)
LinkClose == \E fd \in FileFds : Close6(fd)
LinkWrite == \E fd \in FileFds : Write6(fd, GoodBuf, 1)
LinkLinkat ==
    \E oldpath \in {GoodBuf, BadBuf}, old_name \in EfsNames, new_name \in EfsNames :
        Linkat(oldpath, old_name, GoodBuf, new_name)
LinkUnlinkat == \E path \in {GoodBuf, BadBuf}, name \in EfsNames : Unlinkat(path, name)
LinkFstat == \E fd \in 0..(FirstFd + MaxHandles) : Fstat(fd, GoodBuf)

NextLink == LinkOpen \/ LinkClose \/ LinkWrite \/ LinkLinkat \/ LinkUnlinkat \/ LinkFstat

SpecLink == Init /\ [][NextLink]_vars

\* the entries of the directory d that reference the inode id
EntriesOf(d, id) == {i \in DOMAIN d : d[i].inode_number = id}

\* C23: an unlinkat that succeeds frees the inode of the name, its data
\* blocks and its bit in the inode bitmap, exactly when no other entry
\* references the inode; if another entry does, the inode keeps its bit and
\* its data blocks and every other name still finds it. No other inode changes.
C23_UnlinkFreesLast ==
    [][ \A name \in EfsNames :
            (Unlinkat(GoodBuf, name) /\ ret' = 0)
            => LET id == find_inode_id(dirents, name)[1]
                   others == {i \in EntriesOf(dirents, id) : dirents[i].name # name}
               IN  /\ find_inode_id(dirents', name) = <<>>
                   /\ IF others = {}
                      THEN /\ id \notin inode_bitmap'
                           /\ disk_inodes'[id] = <<>>
                           /\ Range(disk_inodes[id]) \cap data_bitmap' = {}
                      ELSE /\ id \in inode_bitmap'
                           /\ disk_inodes'[id] = disk_inodes[id]
                           /\ Range(disk_inodes[id]) \subseteq data_bitmap'
                           /\ \A i \in others :
                                  find_inode_id(dirents', dirents[i].name) = <<id>>
                   /\ \A other \in InodeIds \ {id} :
                          /\ disk_inodes'[other] = disk_inodes[other]
                          /\ other \in inode_bitmap' <=> other \in inode_bitmap
                          /\ Range(disk_inodes[other]) \cap data_bitmap'
                                 = Range(disk_inodes[other]) \cap data_bitmap ]_vars

\* fstat once reported two links for inode 2, which has data; the unlinkat
\* just made removed its last entry, and the inode and its blocks are free
C23_Witness ==
    /\ op.name = "unlinkat" /\ ret = 0
    /\ stat = [ino |-> 2, nlink |-> 2]
    /\ 2 \notin inode_bitmap /\ EntriesOf(dirents, 2) = {}
    /\ data_bitmap = 1..AppSize
    /\ \E i \in DOMAIN handles :
           handles[i] # <<>> /\ handles[i][1].inode = 2 /\ handles[i][1].offset = 1

\* C24: the link count fstat reports for an inode is the number of entries of
\* the root directory that reference it; a linkat that succeeds adds one
\* entry for the inode of the old name, an unlinkat that succeeds removes one
\* entry of the inode of the name, and neither changes the count of another
\* inode; a linkat with a missing source, a target name that exists or two
\* equal names fails, and a linkat or unlinkat that fails leaves the
\* directory as it was.
C24_LinkCount ==
    [][ /\ \A id \in InodeIds :
               get_stat_info(Efs, id)'.nlink = Cardinality(EntriesOf(dirents', id))
        /\ (op'.name = "fstat" /\ ret' = 0 /\ stat' # stat)
               => stat'.nlink = Cardinality(EntriesOf(dirents, stat'.ino))
        /\ \A path \in {GoodBuf, BadBuf}, old_name \in EfsNames, new_name \in EfsNames :
               Linkat(path, old_name, GoodBuf, new_name)
               => /\ (\/ find_inode_id(dirents, old_name) = <<>>
                       \/ find_inode_id(dirents, new_name) # <<>>
                       \/ old_name = new_name) => ret' = -1
                  /\ IF ret' = 0
                     THEN \A id \in InodeIds :
                              Cardinality(EntriesOf(dirents', id)) =
                                  Cardinality(EntriesOf(dirents, id))
                                  + (IF <<id>> = find_inode_id(dirents, old_name)
                                     THEN 1 ELSE 0)
                     ELSE dirents' = dirents
        /\ \A path \in {GoodBuf, BadBuf}, name \in EfsNames :
               Unlinkat(path, name)
               => IF ret' = 0
                  THEN \A id \in InodeIds :
                           Cardinality(EntriesOf(dirents', id)) =
                               Cardinality(EntriesOf(dirents, id))
                               - (IF <<id>> = find_inode_id(dirents, name)
                                  THEN 1 ELSE 0)
                  ELSE dirents' = dirents ]_vars

\* the program was linked as "f" and as "g" and unlinked under its own name:
\* fstat has just reported the two entries its inode has left
C24_Witness ==
    /\ op.name = "fstat" /\ ret = 0
    /\ stat = [ino |-> 1, nlink |-> 2]
    /\ Len(dirents) = 2
    /\ find_inode_id(dirents, "app") = <<>>
    /\ Cardinality(EntriesOf(dirents, 1)) = 2

-----------------------------------------------------------------------------
(* The stride scheduler under any mix of yield, set_priority, fork and exit *)

Prios == 1..MaxPrio

Dispatch == ticks < MaxTicks /\ FindNext
Yield == TrapYield
SetPriority == \E prio \in Prios : TrapSetPriority(prio)
Fork == TrapFork
Exit == TrapExit
Exec == \E name \in Apps \cup {"none"} : TrapExec(GoodBuf, name)
Spawn == \E name \in Apps \cup {"none"} : TrapSpawn(GoodBuf, name)

NextStride == Dispatch \/ Yield \/ SetPriority \/ Fork \/ Exit \/ Exec \/ Spawn

SpecStride == Init /\ [][NextStride]_vars

\* the pids in the queue q
InQueue(q) == {q[i] : i \in 1..Len(q)}

C8_StrideUpdate ==
    [][ IF current = 0 /\ current' # 0
        THEN stride' = [stride EXCEPT
                           ![current'] = stride[current'] + BIG_STRIDE \div priority[current']]
        ELSE \A p \in tasks : stride'[p] = stride[p]
      ]_vars

\* a process that set its own priority has been dispatched again, next to
\* another process that has a stride of its own
C8_Witness ==
    /\ current # 0 /\ priority[current] # DefaultPriority
    /\ stride[current] > BIG_STRIDE \div priority[current]
    /\ \E o \in InQueue(ready_queue) : stride[o] > 0 /\ priority[o] # priority[current]

\* C13: a spawn that succeeds makes the process that a fork by the caller
\* followed by an exec in the child would make: a child of the caller, in the
\* table and in the ready queue, with the stride and the priority of that
\* fork-then-exec child; the caller gets the pid of the child.
C13_SpawnAsForkExec ==
    [][ (current # 0 /\ op'.name = "spawn" /\ ret' # -1)
        => /\ ret' = NewPid
           /\ NewPid \in tasks' /\ NewPid \in InQueue(ready_queue')
           /\ parent'[NewPid] = current
           /\ stride'[NewPid] = ExecProcess(ForkProcess(current)).stride
           /\ priority'[NewPid] = ExecProcess(ForkProcess(current)).priority ]_vars

\* C38: every process has a priority of 2 or more at all times (a process
\* loaded from an ELF starts with 16, fork copies the priority of the parent,
\* exec keeps it, and a set_priority below 2 returns -1 and changes nothing),
\* so that BIG_STRIDE / priority never divides by zero.
C38_PriorityAtLeast2 ==
    \A p \in tasks : priority[p] >= 2

\* a set_priority below 2 has failed in a process whose priority is not the
\* one it started with, beside a process that took its priority from a fork
C38_Witness ==
    /\ op.name = "set_priority" /\ op.count < 2 /\ ret = -1
    /\ priority[caller] = 2
    /\ \E p \in tasks : parent[p] = caller /\ priority[p] = 2

-----------------------------------------------------------------------------
(* The memory of a process of chapter 5: sbrk, mmap and munmap with any     *)
(* arguments                                                                *)

Sizes == {0 - PAGE_SIZE - 1, 0 - PAGE_SIZE, -1, 0, 1, PAGE_SIZE}

MemAddrs == {0, PAGE_SIZE, 2 * PAGE_SIZE, 2 * PAGE_SIZE + 1}
Lens == {0, 1, PAGE_SIZE + 1, USIZE - 1}
Prots == {-1, 0, 1, 3, 7, 8}

MemDispatch == ticks < MaxCalls /\ FindNext
Sbrk == \E size \in Sizes : TrapSbrk(size)
Mmap == \E addr \in MemAddrs, len \in Lens, prot \in Prots : TrapMmap(addr, len, prot)
Munmap == \E addr \in MemAddrs, len \in Lens : TrapMunmap(addr, len)

NextMem == MemDispatch \/ Sbrk \/ Mmap \/ Munmap

SpecMem == Init /\ [][NextMem]_vars

PagesOf(addr, len) ==
    {v \in VPNs : v * PAGE_SIZE < addr + len /\ (v + 1) * PAGE_SIZE > addr}

\* [addr, addr + len) lies in the address space
InSpace(addr, len) == addr + len <= USIZE

\* C18: an mmap(addr, len, prot, ..) that returns, returns -1 and maps no page if addr is not
\* page aligned, prot has a bit outside bits 0..2 or none of R, W, X, or a
\* page of [addr, addr + len) is already mapped; otherwise it returns 0 and
\* every page of the range is mapped with U, V and exactly the permissions
\* asked for.
C18_MmapChecks ==
    [][ \A addr \in MemAddrs, len \in Lens, prot \in Prots :
            (TrapMmap(addr, len, prot) /\ current' = 0)
            => IF \/ addr % PAGE_SIZE # 0
                  \/ ProtOutside(prot) \/ prot % 8 = 0
                  \/ \E v \in PagesOf(addr, len) : "V" \in address_space[current][v]
               THEN ret' = -1 /\ address_space' = address_space
               ELSE /\ ret' = 0
                    /\ InSpace(addr, len)
                    /\ \A v \in PagesOf(addr, len) :
                           address_space'[current][v] = ProtFlags(prot) ]_vars

\* C19: a munmap(addr, len) that returns, returns -1 and unmaps no page if addr is not page
\* aligned or a page of [addr, addr + len) is not mapped; otherwise it
\* returns 0 and unmaps the pages of the range and no other.
C19_MunmapChecks ==
    [][ \A addr \in MemAddrs, len \in Lens :
            (TrapMunmap(addr, len) /\ current' = 0)
            => IF \/ addr % PAGE_SIZE # 0
                  \/ ~InSpace(addr, len)
                  \/ \E v \in PagesOf(addr, len) : "V" \notin address_space[current][v]
               THEN ret' = -1 /\ address_space' = address_space
               ELSE /\ ret' = 0
                    /\ address_space' =
                           [address_space EXCEPT ![current] =
                               [v \in VPNs |-> IF v \in PagesOf(addr, len) THEN {} ELSE @[v]]] ]_vars

\* C33: no sbrk, mmap or munmap of a process makes the kernel map a page
\* that is mapped or unmap a page that is not mapped, the ranges of mmap and
\* munmap next to the program break included: no such call stops the kernel
\* in map or in unmap.
C33_NoDoubleMap ==
    [][ /\ \A size \in Sizes : TrapSbrk(size) => ~panicked'
        /\ \A addr \in MemAddrs, len \in Lens, prot \in Prots :
             (TrapMmap(addr, len, prot) /\ current' = 0 /\ ret' = 0 /\ len # 0)
             => ~MapsMapped(address_space[current], floor(addr),
                            ceil(Wrap(addr + page_count(len) * PAGE_SIZE)))
        /\ \A addr \in MemAddrs, len \in Lens :
             (TrapMunmap(addr, len) /\ current' = 0 /\ ret' = 0 /\ len # 0)
             => ~UnmapsUnmapped(address_space[current], floor(addr),
                                ceil(Wrap(addr + page_count(len) * PAGE_SIZE))) ]_vars

-----------------------------------------------------------------------------
(* Two processes that only yield, measured over a window of dispatches *)

\* neither process is ahead of another by more than its own pass
Balanced ==
    \A a \in tasks, b \in tasks : stride[a] <= stride[b] + Pass(priority[a])

\* dispatches counted in the window
WindowTotal == win.n[1] + win.n[2]

\* the shortest window the rate is stated for
WindowMin == 100 * (IF priority[1] > priority[2] THEN priority[1] ELSE priority[2])

\* before the window: initproc sets its priority, yields, forks; the child
\* sets its own priority
RateSetPriority == ~win.open /\ \E prio \in 2..MaxPrio : TrapSetPriority(prio)
RateFork == ~win.open /\ TrapFork
RateYield == TrapYield

\* the measurement starts between two dispatches, with both processes ready
\* and their priorities set
RateMark ==
    /\ ~panicked /\ ~win.open /\ current = 0
    /\ tasks = {1, 2} /\ InQueue(ready_queue) = tasks
    /\ \A p \in tasks : priority[p] <= MaxPrio
    /\ win' = [open |-> TRUE, balanced |-> Balanced, n |-> [p \in Pids |-> 0]]
    /\ UNCHANGED <<ioVars, procVars, exit_code, fsVars, actions, panicked, ret, op, caller,
                   tasks, ready_queue, stride, priority, current, ticks, threadVars,
                   memVars>>

RateDispatch ==
    /\ IF win.open THEN WindowTotal < WindowMin + MaxExtra ELSE ticks < MaxStart
    /\ FindNext

NextRate == RateDispatch \/ RateSetPriority \/ RateFork \/ RateYield \/ RateMark

SpecRate == Init /\ [][NextRate]_vars

Abs(x) == IF x < 0 THEN -x ELSE x

\* the dispatch counts of a and b are within 2% of priority[a] / priority[b]
RatioWithin2Percent(a, b) ==
    /\ win.n[b] > 0
    /\ 100 * Abs(win.n[a] * priority[b] - win.n[b] * priority[a])
           <= 2 * priority[a] * win.n[b]

-----------------------------------------------------------------------------
(* The threads of one process and its mutexes: any thread may create, lock  *)
(* and unlock, in any order                                                 *)

MutexIds == 0..(MaxMutexes - 1)
Entries == {4}
\* the entry of the signal handler of a program
RetHandler == 8
Args == {1}

SyncFindNext == ThreadFindNext
SyncThreadCreate == \E entry \in Entries, arg \in Args : ThreadCreate(entry, arg)
SyncMutexCreate == \E blocking \in BOOLEAN : ThreadMutexCreate(blocking)
SyncMutexLock == \E mutex_id \in MutexIds : ThreadMutexLock(mutex_id)
SyncMutexUnlock == \E mutex_id \in MutexIds : ThreadMutexUnlock(mutex_id)

NextSync ==
    SyncFindNext \/ SyncThreadCreate \/ SyncMutexCreate \/ SyncMutexLock \/ SyncMutexUnlock

SpecSync == Init /\ [][NextSync]_vars

\* the threads of process p that are past a lock of mutex mutex_id and have
\* not unlocked it since
Holders(p, mutex_id) == {t \in Tids : tid2pid[t] = p /\ mutex_id \in holding[t]}

\* C1: whatever the order of the mutex_lock and mutex_unlock calls of the
\* threads of a process, at most one thread at a time is past its lock of a
\* mutex without having unlocked it.
C1_MutualExclusion ==
    \A p \in Pids, mutex_id \in MutexIds : Cardinality(Holders(p, mutex_id)) <= 1

-----------------------------------------------------------------------------
(* The threads of one process, its mutexes and its condition variables      *)

CondvarIds == 0..(MaxCondvars - 1)

CondFindNext == ThreadFindNext
CondThreadCreate == \E entry \in Entries, arg \in Args : ThreadCreate(entry, arg)
CondMutexCreate == ThreadMutexCreate(TRUE)
CondMutexLock == \E mutex_id \in MutexIds : ThreadMutexLock(mutex_id)
CondMutexUnlock == \E mutex_id \in MutexIds : ThreadMutexUnlock(mutex_id)
CondCreate == ThreadCondvarCreate(0)
CondSignal == \E condvar_id \in CondvarIds : ThreadCondvarSignal(condvar_id)
CondWait == \E condvar_id \in CondvarIds, mutex_id \in MutexIds :
                ThreadCondvarWait(condvar_id, mutex_id)

NextCond ==
    \/ CondFindNext \/ CondThreadCreate \/ CondMutexCreate \/ CondMutexLock
    \/ CondMutexUnlock \/ CondCreate \/ CondSignal \/ CondWait

SpecCond == Init /\ [][NextCond]_vars

\* C14: a thread that is dispatched to user code after its condvar_wait(cid,
\* mid) owns the mutex mid as it resumes.
C14_WaitReacquires ==
    [][ \A t \in Tids :
            (running = 0 /\ running' = t /\ waiting[t] # <<>>)
            => LET slot == waiting[t][1] + 1
               IN  /\ slot <= Len(mutex_list'[tid2pid[t]])
                   /\ mutex_list'[tid2pid[t]][slot] # <<>>
                   /\ mutex_list'[tid2pid[t]][slot][1].owner = t ]_vars

-----------------------------------------------------------------------------
(* The threads of one process and its semaphores                            *)

SemIds == 0..(MaxSems - 1)

SemFindNext == ThreadFindNext
SemThreadCreate == \E entry \in Entries, arg \in Args : ThreadCreate(entry, arg)
SemCreate == \E res_count \in 0..MaxRes : ThreadSemaphoreCreate(res_count)
SemUp == \E sem_id \in SemIds : ThreadSemaphoreUp(sem_id)
SemDown == \E sem_id \in SemIds : ThreadSemaphoreDown(sem_id)
SemYield == ThreadYield

NextSem == SemFindNext \/ SemThreadCreate \/ SemCreate \/ SemUp \/ SemDown \/ SemYield

SpecSem == Init /\ [][NextSem]_vars

\* the semaphores of process p
Sems(p) == 1..Len(semaphore_list[p])

\* thread t is in the wait queue of semaphore i of process p
SemWaiter(p, i, t) ==
    \E j \in 1..Len(semaphore_list[p][i][1].wait_queue) :
        semaphore_list[p][i][1].wait_queue[j] = t

-----------------------------------------------------------------------------
(* Processes with several threads: any thread may fork, create a thread,    *)
(* yield or exit                                                            *)

ThrFindNext == ThreadFindNext
ThrCreate == \E entry \in Entries, arg \in Args : ThreadCreate(entry, arg)
ThrFork == ThreadFork
ThrYield == ThreadYield
ThrExit == \E code \in ExitCodes : ThreadExit(code)
ThrExec == \E name \in Apps \cup {"none"} : ThreadExec(GoodBuf, name)

NextThreads == ThrFindNext \/ ThrCreate \/ ThrFork \/ ThrYield \/ ThrExit \/ ThrExec

SpecThreads == Init /\ [][NextThreads]_vars

\* the step is the system call `name` of the running thread
IsSyscall(name) == running # 0 /\ running' = 0 /\ op'.name = name

\* C10: a fork makes one new thread, the only thread of the new process, whose
\* registers are those of the calling thread as the call returns, except that
\* a0 is 0; the calling thread gets the pid of the child in a0.
C10_ForkMirrorsCaller ==
    [][ IsSyscall("fork")
        => /\ ntids' = ntids + 1
           /\ {t \in Tids : tid2pid'[t] = NewPid} = {NewTid}
           /\ pthreads'[NewPid] = <<NewTid>>
           /\ context'[NewTid] = [move_next(context[running]) EXCEPT !.a0 = 0]
           /\ context'[running].a0 = NewPid ]_vars

\* C12: an exec that succeeds leaves the pid of the caller, its parent link,
\* its fd table, its signal actions and mask, its stride and its priority as
\* they were, and replaces the memory of the process and the registers of the
\* calling thread, those of no other thread.
C12_ExecFrame ==
    [][ (IsSyscall("exec") /\ ret' = 0)
        => LET p == tid2pid[running]
           IN  /\ tid2pid' = tid2pid /\ procs' = procs /\ pthreads' = pthreads
               /\ parent' = parent
               /\ fd_table' = fd_table
               /\ actions' = actions /\ signal'[p].mask = signal[p].mask
               /\ stride' = stride /\ priority' = priority
               /\ umem'[p] = FreshMemory
               /\ context'[running] = UserContext(0)
               /\ \A t \in Tids \ {running} : context'[t] = context[t] ]_vars

-----------------------------------------------------------------------------
(* The threads of one process creating mutexes, semaphores and condition    *)
(* variables                                                                *)

NewFindNext == ThreadFindNext
NewThreadCreate == \E entry \in Entries, arg \in Args : ThreadCreate(entry, arg)
NewMutexCreate == \E blocking \in BOOLEAN : ThreadMutexCreate(blocking)
NewSemaphoreCreate == \E res_count \in 0..MaxRes : ThreadSemaphoreCreate(res_count)
NewCondvarCreate == ThreadCondvarCreate(0)

NextCreate ==
    NewFindNext \/ NewThreadCreate \/ NewMutexCreate \/ NewSemaphoreCreate \/ NewCondvarCreate

SpecCreate == Init /\ [][NextCreate]_vars

\* the list lst of slots has become lst2 by a creation that returned id: id
\* is the first empty slot of lst, or its length when none is empty, the slot
\* holds a primitive afterwards and the other slots are as they were
StoredAt(lst, lst2, id) ==
    /\ id = (IF FirstEmpty(lst) # 0 THEN FirstEmpty(lst) - 1 ELSE Len(lst))
    /\ Len(lst2) = (IF FirstEmpty(lst) # 0 THEN Len(lst) ELSE Len(lst) + 1)
    /\ lst2[id + 1] # <<>>
    /\ \A i \in 1..Len(lst) : i # id + 1 => lst2[i] = lst[i]

\* C16: mutex_create, semaphore_create and condvar_create return the index of
\* the first empty slot of the list of the process, or the length of the list
\* when no slot is empty; after the call that slot holds the new primitive
\* and every other slot is unchanged, so the id is not that of a primitive
\* still in the list.
C16_CreateFirstEmpty ==
    [][ LET p == tid2pid[running]
        IN  /\ IsSyscall("mutex_create")
               => StoredAt(mutex_list[p], mutex_list'[p], ret')
            /\ IsSyscall("semaphore_create")
               => StoredAt(semaphore_list[p], semaphore_list'[p], ret')
            /\ IsSyscall("condvar_create")
               => StoredAt(condvar_list[p], condvar_list'[p], ret') ]_vars

-----------------------------------------------------------------------------
(* The return to user mode: the threads of one process that yield, lock,    *)
(* exec, send themselves a signal and return from its handler               *)

RetFindNext == ThreadFindNext
RetThreadCreate ==
    \E entry \in Entries, arg \in Args : ntids < MaxThreads - 1 /\ ThreadCreate(entry, arg)
RetYield == ThreadYield
RetMutexCreate == ThreadMutexCreate(TRUE)
RetMutexLock == ThreadMutexLock(0)
RetMutexUnlock == ThreadMutexUnlock(0)
RetExec == \E name \in Apps \cup {"none"} : ThreadExec(GoodBuf, name)
RetStore ==
    /\ ~panicked /\ running # 0
    /\ umem' = [umem EXCEPT ![tid2pid[running]][GoodBuf] = RetHandler]
    /\ UNCHANGED <<ring, fd_table, procs, written, readOut, pipe_made, panicked, ret, op,
                   caller, procVars, fsVars, actions, strideVars, threadVars>>
RetSigaction == ThreadSigaction(MAX_SIG, GoodBuf, 0)
RetKill == \E pid \in procs : ThreadKill(pid, MAX_SIG)
RetSigreturn == ThreadSigreturn

NextRet ==
    \/ RetFindNext \/ RetThreadCreate \/ RetYield
    \/ RetMutexCreate \/ RetMutexLock \/ RetMutexUnlock \/ RetExec
    \/ RetStore \/ RetSigaction \/ RetKill \/ RetSigreturn

SpecRet == Init /\ [][NextRet]_vars

\* the step is a system call of the running thread, which it outlives
Returns == running # 0 /\ running' = 0 /\ ~panicked' /\ state'[running] # "exited"

\* C25: a system call other than exit that completes with Done(ret) leaves
\* ret in a0 of the calling thread and its sepc 4 past the ecall, and the
\* registers of a thread stay as its call left them while it is ready or
\* blocked, until it runs again.
C25_ReturnValueAndPc ==
    [][ /\ (Returns /\ op'.name # "exit")
           => /\ context'[running].a0 = ret'
              /\ context'[running].sepc = context[running].sepc + 4
        /\ \A t \in Tids :
               (t # running /\ state[t] \in {"ready", "blocked"}
                 /\ state'[t] \in {"ready", "blocked", "running"})
               => context'[t] = context[t] ]_vars

\* the signals with a handler that the step has delivered to process p
Delivered(p) ==
    {s \in 1..MAX_SIG :
        /\ s \notin signal'[p].received
        /\ \/ s \in signal[p].received
           \/ op'.name = "kill" /\ op'.fd = p /\ op'.count = s
        /\ ~Masked(signal'[p].mask, s)
        /\ actions'[p][s] # 0}

\* C26: when a system call ends with the delivery of a signal that is not
\* masked and has a handler, the calling thread is left to resume at the
\* entry of the handler with the number of the signal in a0.
C26_HandlerEntry ==
    [][ Returns
        => \A s \in Delivered(tid2pid[running]) :
               /\ context'[running].sepc = actions'[tid2pid[running]][s]
               /\ context'[running].a0 = s ]_vars

-----------------------------------------------------------------------------
(* Signals: single-threaded processes that send each other signals, mask    *)
(* them and install handlers                                                *)

\* kill is tried with every signal and with SignalNo::ERR; the highest signal
\* is the one that is masked and given a handler
Signums == 0..MAX_SIG
Masks == {0, 2 ^ MAX_SIG}
Handlers == {RetHandler}

\* the thread in user mode stores the entry of a handler where it will point
\* sigaction
UserStore ==
    /\ ~panicked /\ running # 0
    /\ \E h \in Handlers : umem' = [umem EXCEPT ![tid2pid[running]][GoodBuf] = h]
    /\ UNCHANGED <<ring, fd_table, procs, written, readOut, pipe_made, panicked, ret, op,
                   caller, procVars, fsVars, actions, strideVars, threadVars>>

SigFindNext == ThreadFindNext
SigFork == ThreadFork
SigKill == \E pid \in Pids, signum \in Signums : ThreadKill(pid, signum)
SigSigaction == \E action \in {0, GoodBuf} : ThreadSigaction(MAX_SIG, action, 0)
SigSigprocmask == \E mask \in Masks : ThreadSigprocmask(mask)
SigYield == ThreadYield
SigExit == \E code \in ExitCodes : ThreadExit(code)
SigFault == ThreadFault

NextSig ==
    \/ SigFindNext \/ SigFork \/ SigKill \/ SigSigaction \/ SigSigprocmask
    \/ SigYield \/ SigExit \/ SigFault \/ UserStore

SpecSig == Init /\ [][NextSig]_vars

\* the signals that are pending for process p, not masked and without handler
Fatal(p) ==
    {s \in 1..MAX_SIG : s \in signal[p].received /\ ~Masked(signal[p].mask, s)
                        /\ actions[p][s] = 0}

\* the step is a system call of the running thread
AnySyscall == running # 0 /\ running' = 0 /\ op'.name # "fault"

\* the signals that kill at the end of the system call of this step: received
\* before it or sent by it, and neither masked nor given a handler by it
FatalAfter(p) ==
    {s \in 1..MAX_SIG :
        /\ s \in signal[p].received \/ (op'.name = "kill" /\ op'.fd = p /\ op'.count = s)
        /\ ~Masked(signal'[p].mask, s)
        /\ actions'[p][s] = 0}

\* a thread that has exited stays exited, with its code, and is not dispatched
ExitedForGood ==
    \A t \in Tids :
        state[t] = "exited"
        => /\ state'[t] = "exited" /\ thread_exit'[t] = thread_exit[t]
           /\ running' # t /\ t \notin {thread_queue'[i] : i \in 1..Len(thread_queue')}

\* C6 as stated: when a signal without handler is pending and not masked for
\* a process, the next system call of any of its threads, whichever it is,
\* ends with the thread exited with the code of ProcessKilled, for good.
C6_KillNextSyscall ==
    [][ /\ ExitedForGood
        /\ (AnySyscall /\ Fatal(tid2pid[running]) # {})
           => /\ state'[running] = "exited"
              /\ \E s \in 1..MAX_SIG : thread_exit'[running] = <<KilledCode(s)>> ]_vars

\* C6, amended: when a signal K without handler is pending and not masked for
\* a process, the next system call of any of its threads ends with the thread
\* exited with the code ProcessKilled carries for the lowest such signal,
\* unless that call is the sigprocmask that masks K or the sigaction that
\* installs a handler for K; an exited thread never runs again.
C6_KillUnlessMaskedOrCaught ==
    [][ /\ ExitedForGood
        /\ (AnySyscall /\ Fatal(tid2pid[running]) \cap FatalAfter(tid2pid[running]) # {})
           => /\ state'[running] = "exited"
              /\ \E s \in FatalAfter(tid2pid[running]) :
                    /\ \A u \in FatalAfter(tid2pid[running]) : s <= u
                    /\ thread_exit'[running] = <<KilledCode(s)>> ]_vars

\* a process whose only thread yielded with a signal pending has exited with
\* the code of that signal
C6_Witness ==
    /\ op.name = "yield" /\ caller # 0
    /\ pthreads[caller] = <<>>
    /\ exit_code[caller] = <<KilledCode(2)>>


----------------------------------------------------------------------------
\* Traps that end a thread: the timer, unsupported system calls, faults

EndFindNext == ThreadFindNext
EndFork == ThreadFork
EndKill == \E pid \in Pids, signum \in Signums : ThreadKill(pid, signum)
EndYield == ThreadYield
EndUnsupported == ThreadUnsupported
EndFault == ThreadFault
EndTimer == ThreadTimer

NextEnd ==
    \/ EndFindNext \/ EndFork \/ EndKill \/ EndYield
    \/ EndUnsupported \/ EndFault \/ EndTimer

SpecEnd == Init /\ [][NextEnd]_vars

\* the step is the trap named name of the running thread
TrapStep(name) == running # 0 /\ running' = 0 /\ op'.name = name

\* the threads in the ready queue
Queued(q) == {q[i] : i \in 1..Len(q)}

C28_ExitCodes ==
    [][ /\ TrapStep("unsupported")
           => state'[running] = "exited" /\ thread_exit'[running] = <<-2>>
        /\ (TrapStep("fault") \/ TrapStep("timer"))
           => state'[running] = "exited" /\ thread_exit'[running] = <<-3>> ]_vars

\* C28, amended: a thread that issues an unsupported system call is
\* terminated, with exit code -2 unless a signal without handler is pending and
\* not masked for its process, and then with the code ProcessKilled carries
\* for the lowest such signal; a thread that traps for a cause other than a
\* system call is terminated with exit code -3; the thread is in the ready
\* queue no more.
C28_ExitCodesUnlessKilled ==
    [][ /\ TrapStep("unsupported")
           => /\ state'[running] = "exited"
              /\ running \notin Queued(thread_queue')
              /\ IF Fatal(tid2pid[running]) = {}
                 THEN thread_exit'[running] = <<-2>>
                 ELSE \E s \in Fatal(tid2pid[running]) :
                         /\ \A u \in Fatal(tid2pid[running]) : s <= u
                         /\ thread_exit'[running] = <<KilledCode(s)>>
        /\ (TrapStep("fault") \/ TrapStep("timer"))
           => /\ state'[running] = "exited"
              /\ running \notin Queued(thread_queue')
              /\ thread_exit'[running] = <<-3>> ]_vars

\* a process, sent signal 1 by another, has made an unsupported system call
\* and exited with the code of the signal; the other makes one next
C28_Witness ==
    /\ op.name = "unsupported" /\ caller # 0
    /\ exit_code[caller] = <<KilledCode(1)>>
    /\ \E t \in Tids : state[t] = "ready" /\ tid2pid[t] # caller


----------------------------------------------------------------------------
\* The ready queue and the threads a wake-up puts back in it

\* what find_next does with the id of a thread that is gone is left out
QueueFindNext == thread_queue # <<>> /\ thread_exit[Head(thread_queue)] = <<>> /\ ThreadFindNext
QueueThreadCreate == \E entry \in Entries, arg \in Args : ThreadCreate(entry, arg)
QueueFork == ThreadFork
QueueMutexCreate == ThreadMutexCreate(TRUE)
QueueMutexLock == ThreadMutexLock(0)
QueueMutexUnlock == ThreadMutexUnlock(0)
QueueKill == \E pid \in Pids : ThreadKill(pid, 1)
\* exec by the first thread, to have it make more system calls
QueueExec == ntids = 1 /\ ThreadExec(GoodBuf, "app")

NextQueue ==
    \/ QueueFindNext \/ QueueThreadCreate \/ QueueFork \/ QueueMutexCreate
    \/ QueueMutexLock \/ QueueMutexUnlock \/ QueueKill \/ QueueExec

SpecQueue == Init /\ [][NextQueue]_vars

\* C29: every thread id in the ready queue is the id of a thread that is
\* Ready, not the running thread nor a blocked one nor one that has exited or
\* been killed, and no thread id is in the queue twice.
C29_ReadyQueueSound ==
    /\ \A i \in 1..Len(thread_queue) :
          /\ state[thread_queue[i]] = "ready"
          /\ thread_queue[i] # running
          /\ thread_exit[thread_queue[i]] = <<>>
    /\ \A i, j \in 1..Len(thread_queue) : thread_queue[i] = thread_queue[j] => i = j


----------------------------------------------------------------------------
\* Blocking system calls: who blocks, who goes back to the ready queue, who
\* wakes a blocked thread

Creates == {"mutex_create", "semaphore_create", "condvar_create"}

BlockFindNext == QueueFindNext
BlockThreadCreate == \E entry \in Entries, arg \in Args : ThreadCreate(entry, arg)
BlockFork == ThreadFork
BlockKill == ThreadKill(1, 1)
\* exec by the first thread, to have it make more system calls
BlockExec == ntids = 1 /\ op.name \in Creates /\ ThreadExec(GoodBuf, "app")
BlockMutexCreate == ThreadMutexCreate(TRUE)
BlockMutexLock == ThreadMutexLock(0)
BlockMutexUnlock == ThreadMutexUnlock(0)
BlockSemCreate == ThreadSemaphoreCreate(0)
BlockSemUp == ThreadSemaphoreUp(0)
BlockSemDown == ThreadSemaphoreDown(0)
BlockCondCreate == ThreadCondvarCreate(0)
BlockCondSignal == ThreadCondvarSignal(0)
BlockCondWait == ThreadCondvarWait(0, 0)

NextBlock ==
    \/ BlockFindNext \/ BlockThreadCreate \/ BlockFork \/ BlockKill \/ BlockExec
    \/ BlockMutexCreate \/ BlockMutexLock \/ BlockMutexUnlock
    \/ BlockSemCreate \/ BlockSemUp \/ BlockSemDown
    \/ BlockCondCreate \/ BlockCondSignal \/ BlockCondWait

SpecBlock == Init /\ [][NextBlock]_vars

\* the step is a mutex_lock, semaphore_down or condvar_wait that returns r
BlockingReturns(r) ==
    running # 0 /\ running' = 0 /\ ~panicked' /\ op'.name \in Blocking /\ ret' = r

\* the wait queue the system call of this step wakes a thread of: that of the
\* mutex, the semaphore or the condition variable it names, in the process of
\* the caller
WokenFrom ==
    LET p == tid2pid[running]
        wq(lst, id) == IF id < Len(lst[p]) /\ lst[p][id + 1] # <<>>
                       THEN lst[p][id + 1][1].wait_queue ELSE <<>>
    IN  IF running = 0 THEN <<>>
        ELSE IF op'.name = "mutex_unlock" THEN wq(mutex_list, op'.fd)
        ELSE IF op'.name = "semaphore_up" THEN wq(semaphore_list, op'.fd)
        ELSE IF op'.name = "condvar_signal" THEN wq(condvar_list, op'.fd)
        ELSE IF op'.name = "condvar_wait" THEN wq(mutex_list, op'.count)
        ELSE <<>>

\* a blocked thread is in no ready queue and is not dispatched, and it leaves
\* that state only for Ready, in the ready queue, woken by an unlock, an up or
\* a signal of the queue it waits at the head of
BlockedUntilWoken ==
    \A t \in Tids :
        state[t] = "blocked"
        => /\ t \notin Queued(thread_queue) /\ running' # t
           /\ state'[t] # "blocked"
              => /\ state'[t] = "ready" /\ t \in Queued(thread_queue')
                 /\ WokenFrom # <<>> /\ Head(WokenFrom) = t

\* C30 as stated: when mutex_lock, semaphore_down or condvar_wait returns -1
\* the caller becomes Blocked and is not in the ready queue, and it is not
\* dispatched until an unlock, an up or a signal wakes it; when the call
\* returns 0 the caller is back in the ready queue, Ready.
C30_BlockOrRequeue ==
    [][ /\ BlockingReturns(-1)
           => state'[running] = "blocked" /\ running \notin Queued(thread_queue')
        /\ BlockingReturns(0)
           => state'[running] = "ready" /\ running \in Queued(thread_queue')
        /\ BlockedUntilWoken ]_vars

\* C30, amended: the same, unless a signal without handler is pending and not
\* masked for the process of the caller when the call returns: the caller is
\* then exited, whatever the call returned, and is not in the ready queue.
C30_BlockOrRequeueUnlessKilled ==
    [][ /\ (BlockingReturns(-1) /\ Fatal(tid2pid[running]) = {})
           => state'[running] = "blocked" /\ running \notin Queued(thread_queue')
        /\ (BlockingReturns(0) /\ Fatal(tid2pid[running]) = {})
           => /\ state'[running] = "ready"
              /\ thread_queue' # <<>> /\ thread_queue'[Len(thread_queue')] = running
        /\ ((BlockingReturns(-1) \/ BlockingReturns(0)) /\ Fatal(tid2pid[running]) # {})
           => state'[running] = "exited" /\ running \notin Queued(thread_queue')
        /\ BlockedUntilWoken ]_vars

\* a thread blocked by a semaphore_down that returned -1 has been woken by
\* an up and runs again
C30_Witness ==
    /\ running # 0 /\ op.name = "semaphore_up"
    /\ waiting[running] = <<>> /\ context[running].a0 = -1
    /\ \E p \in Pids : /\ semaphore_list[p] # <<>> /\ semaphore_list[p][1] # <<>>
                       /\ sem_hist[p][1].downs > 0


----------------------------------------------------------------------------
\* Wake-ups: which thread an unlock, an up or a signal puts in the ready queue

Wakers == {"mutex_unlock", "semaphore_up", "condvar_signal"}

\* the step is a mutex_unlock, semaphore_up or condvar_signal that returned
WakeStep == running # 0 /\ running' = 0 /\ ~panicked' /\ op'.name \in Wakers

\* how many times thread t is in the queue q
Occurrences(q, t) == Cardinality({i \in 1..Len(q) : q[i] = t})

\* the wait queue of slot id of the list lst of process p (<<>>: no such slot)
WaitQueueOf(lst, p, id) ==
    IF id < Len(lst[p]) /\ lst[p][id + 1] # <<>> THEN lst[p][id + 1][1].wait_queue ELSE <<>>

\* the wait queue of the primitive the step names, after the step
WokenFromAfter ==
    LET p == tid2pid[running]
    IN  IF op'.name = "mutex_unlock" THEN WaitQueueOf(mutex_list', p, op'.fd)
        ELSE IF op'.name = "semaphore_up" THEN WaitQueueOf(semaphore_list', p, op'.fd)
        ELSE WaitQueueOf(condvar_list', p, op'.fd)

\* a mutex_lock, semaphore_down or condvar_wait that returns -1 has put the
\* caller at the back of the wait queue of the primitive, behind those that
\* wait already
ArrivesAtBack ==
    BlockingReturns(-1)
    => LET p == tid2pid[running]
           before == IF op'.name = "mutex_lock" THEN WaitQueueOf(mutex_list, p, op'.fd)
                     ELSE IF op'.name = "semaphore_down"
                     THEN WaitQueueOf(semaphore_list, p, op'.fd)
                     ELSE WaitQueueOf(condvar_list, p, op'.fd)
           after == IF op'.name = "mutex_lock" THEN WaitQueueOf(mutex_list', p, op'.fd)
                    ELSE IF op'.name = "semaphore_down"
                    THEN WaitQueueOf(semaphore_list', p, op'.fd)
                    ELSE WaitQueueOf(condvar_list', p, op'.fd)
       IN  after = Append(before, running)

\* C31: a mutex_unlock, semaphore_up or condvar_signal on a primitive with
\* waiters takes the thread at the front of the wait queue, the one that
\* arrived first, and that thread and no other is put in the ready queue,
\* once, the rest of the wait queue keeping its order; with no waiter no
\* thread but the caller is put in the ready queue; and a thread that blocks
\* arrives at the back of the wait queue.
C31_WakeFirstOnce ==
    [][ /\ ArrivesAtBack
        /\ WakeStep
           => /\ \A t \in Tids \ {running} :
                    Occurrences(thread_queue', t) =
                        Occurrences(thread_queue, t)
                        + (IF WokenFrom # <<>> /\ Head(WokenFrom) = t THEN 1 ELSE 0)
              /\ WokenFrom # <<>> => WokenFromAfter = Tail(WokenFrom)
              /\ WokenFrom = <<>> => WokenFromAfter = <<>> ]_vars

\* two threads wait on a semaphore, and an up has put the first of them, and
\* not the second, in the ready queue
C31_Witness ==
    /\ op.name = "semaphore_up" /\ running = 0 /\ ~panicked
    /\ \E p \in Pids :
          /\ semaphore_list[p] # <<>> /\ semaphore_list[p][1] # <<>>
          /\ Len(semaphore_list[p][1][1].wait_queue) = 1
          /\ \E t \in Tids :
                /\ t \in Queued(thread_queue) /\ context[t].a0 = -1
                /\ t < semaphore_list[p][1][1].wait_queue[1]
                /\ state[semaphore_list[p][1][1].wait_queue[1]] = "blocked"


----------------------------------------------------------------------------
\* The end of the scheduling loop

HaltFindNext == ThreadFindNext
HaltThreadCreate == \E entry \in Entries, arg \in Args : ThreadCreate(entry, arg)
HaltSemCreate == \E res_count \in 0..MaxRes : ThreadSemaphoreCreate(res_count)
HaltSemUp == ThreadSemaphoreUp(0)
HaltSemDown == ThreadSemaphoreDown(0)
HaltMutexCreate == ThreadMutexCreate(TRUE)
HaltMutexLock == ThreadMutexLock(0)
HaltMutexUnlock == ThreadMutexUnlock(0)
HaltExit == \E code \in ExitCodes : ThreadExit(code)
HaltShutdown == ThreadShutdown

NextHalt ==
    \/ HaltFindNext \/ HaltThreadCreate \/ HaltSemCreate \/ HaltSemUp \/ HaltSemDown
    \/ HaltMutexCreate \/ HaltMutexLock \/ HaltMutexUnlock \/ HaltExit \/ HaltShutdown

SpecHalt == Init /\ [][NextHalt]_vars

\* C32: the kernel shuts down with failure = false only when every thread has
\* exited and no process is left; never while a thread is Blocked on a mutex,
\* a semaphore or a condition variable.
C32_ShutdownWhenAllExited ==
    op.name = "shutdown"
    => /\ \A t \in Tids : state[t] \in {"none", "exited"}
       /\ \A p \in procs : pthreads[p] = <<>> /\ exit_code[p] # <<>>

-----------------------------------------------------------------------------
(* The heap of the processes of chapter 5 under sbrk, fork, exec and spawn *)

HeapDispatch == ticks < MaxTicks /\ FindNext
HeapSbrk == \E size \in Sizes : TrapSbrk(size)
HeapFork == TrapFork
HeapExec == \E name \in Apps \cup {"none"} : TrapExec(GoodBuf, name)
HeapSpawn == \E name \in Apps \cup {"none"} : TrapSpawn(GoodBuf, name)

NextHeap == HeapDispatch \/ HeapSbrk \/ HeapFork \/ HeapExec \/ HeapSpawn

SpecHeap == Init /\ [][NextHeap]_vars

\* C34: for every process the bottom of the heap is at or below the program
\* break, after any sbrk (failed, negative and zero ones included), fork,
\* exec and spawn.
C34_BottomBelowBrk ==
    \A p \in tasks : heap_bottom[p] <= program_brk[p]

\* an sbrk below the bottom of the heap has failed while a process has a heap
\* that has grown
C34_Witness ==
    /\ op.name = "sbrk" /\ op.fd < 0 /\ ret = -1
    /\ \E p \in tasks : p # caller /\ program_brk[p] > heap_bottom[p]

\* the pages between the program image and the user stack
HeapPages(p) ==
    {v \in VPNs : v * PAGE_SIZE >= heap_bottom[p] /\ v < USIZE \div PAGE_SIZE - 2}

\* C35: under sbrk alone (and the fork, exec and spawn that hand a heap on)
\* the mapped pages of the heap are exactly the pages from the bottom of the
\* heap that hold a byte below the program break: no sbrk maps a page twice
\* or unmaps a page that is not mapped, a shrinking sbrk unmaps the pages at
\* or above the new ceiling and no other, and an sbrk within a page changes
\* no mapping.
C35_HeapPagesExact ==
    /\ ~panicked
    /\ \A p \in tasks : \A v \in HeapPages(p) :
           "V" \in address_space[p][v] <=> v * PAGE_SIZE < program_brk[p]

\* an sbrk has taken the break down by a page from one byte above a page
\* boundary: one page of the heap is left
C35_Witness ==
    /\ op.name = "sbrk" /\ op.fd = 0 - PAGE_SIZE
    /\ ret = heap_bottom[caller] + PAGE_SIZE + 1
    /\ program_brk[caller] = heap_bottom[caller] + 1
    /\ address_space[caller][floor(heap_bottom[caller])] = U_WRV
    /\ address_space[caller][floor(heap_bottom[caller]) + 1] = {}

-----------------------------------------------------------------------------
(* The stride scheduler with a stride counter that reaches its width *)

\* usize::MAX + 1 for a stride of StrideBits bits
STRIDE_MOD == 2 ^ StrideBits

\* rust_main, task.stride += pass: where the sum does not fit the counter the
\* kernel panics (overflow checks) or goes on with the wrapped sum
WrapFindNext ==
    /\ ~panicked /\ current = 0 /\ ready_queue # <<>> /\ ticks < MaxWrapTicks
    /\ LET pid == ready_queue[fetch]
           sum == stride[pid] + Pass(priority[pid])
       IN  \/ /\ sum >= STRIDE_MOD
              /\ panicked' = TRUE
              /\ UNCHANGED <<current, ready_queue, stride, win, ticks>>
           \/ /\ current' = pid
              /\ ready_queue' = Remove(ready_queue, fetch)
              /\ stride' = [stride EXCEPT ![pid] = sum % STRIDE_MOD]
              /\ win' = IF win.open THEN [win EXCEPT !.n[pid] = @ + 1] ELSE win
              /\ ticks' = ticks + 1
              /\ UNCHANGED panicked
    /\ UNCHANGED <<tasks, priority, nprocs, parent, ret, op, caller>>
    /\ UNCHANGED <<ioVars, exit_code, fsVars, actions, threadVars, memVars>>

WrapYield == TrapYield
WrapFork == ticks <= 2 /\ TrapFork
WrapSetPriority == ticks <= 2 /\ \E prio \in Prios : TrapSetPriority(prio)

NextWrap == WrapFindNext \/ WrapYield \/ WrapFork \/ WrapSetPriority

SpecWrap == Init /\ [][NextWrap]_vars

\* the distance from stride a up to stride b, modulo the width of the counter
Ahead(a, b) == (b - a + STRIDE_MOD) % STRIDE_MOD

\* C36: the comparison of strides tolerates the overflow of the counter:
\* where the stride of the process dispatched and the stride of a process
\* left in the ready queue differ by less than BIG_STRIDE / 2 modulo the
\* width of the counter, the process dispatched is the one logically behind
\* (the other one is ahead of it by that difference), before and after a
\* counter has wrapped; and no increment of a stride stops the kernel.
C36_WrapTolerant ==
    [][ /\ ~panicked => ~panicked'
        /\ (current = 0 /\ current' # 0)
           => \A o \in InQueue(ready_queue') :
                  (\/ Ahead(stride[current'], stride[o]) < BIG_STRIDE \div 2
                   \/ Ahead(stride[o], stride[current']) < BIG_STRIDE \div 2)
                  => Ahead(stride[current'], stride[o]) < BIG_STRIDE \div 2 ]_vars

-----------------------------------------------------------------------------
(* The stride scheduler run for ever: processes that yield and set their    *)
(* priority, none of which blocks or exits                                  *)

\* the priorities passed to set_priority: one below 2, the least one, and one
\* above BIG_STRIDE
LivePrios == {1, 2, BIG_STRIDE + 1}

\* the largest stride of the model: MaxPasses passes of a process of priority 2
MaxStride == MaxPasses * Pass(2)

\* some process cannot be dispatched within the bound of the model
AtBound == \E p \in tasks : stride[p] + Pass(priority[p]) > MaxStride

\* rust_main: find_next fetches a process and its stride grows by its pass
\* (the dispatches are not counted here)
LiveFindNext ==
    /\ ~panicked /\ current = 0 /\ ready_queue # <<>>
    /\ LET pid == ready_queue[fetch]
       IN  /\ stride[pid] + Pass(priority[pid]) <= MaxStride
           /\ current' = pid
           /\ ready_queue' = Remove(ready_queue, fetch)
           /\ stride' = [stride EXCEPT ![pid] = @ + Pass(priority[pid])]
    /\ UNCHANGED <<tasks, priority, nprocs, parent, ret, op, caller, panicked, ticks, win>>
    /\ UNCHANGED <<ioVars, exit_code, fsVars, actions, threadVars, memVars>>

LiveYield == TrapYield
LiveFork == TrapFork
LiveSetPriority == \E prio \in LivePrios : TrapSetPriority(prio)

NextLive == LiveFindNext \/ LiveYield \/ LiveFork \/ LiveSetPriority

\* the loop of rust_main dispatches whenever a process is ready, and a
\* process in user mode comes back to the kernel (a system call, or the
\* timer at the latest)
SpecLive ==
    /\ Init /\ [][NextLive]_vars
    /\ WF_vars(LiveFindNext)
    /\ WF_vars(LiveYield \/ LiveFork \/ LiveSetPriority)

\* C37: with processes that never block or exit, whatever priorities of 2
\* or more they set, every process is dispatched again and again: a process
\* in the ready queue is dispatched later on (or the run has come to the
\* bound of the model).
C37_NoStarvation ==
    \A p \in 1..MaxProcs :
        (p \in InQueue(ready_queue)) ~> (current = p \/ AtBound)

-----------------------------------------------------------------------------
(* Open files and the inodes they refer to *)

\* C39: an open file never refers to an inode that has been freed: the inode
\* of every open descriptor has its bit in the inode bitmap, so that no later
\* create hands the inode of an open file to another file.
C39_OpenInodeAllocated ==
    \A i \in DOMAIN handles :
        handles[i] # <<>> => handles[i][1].inode \in inode_bitmap

=============================================================================
